---- MODULE Spec2Model ----
(***************************************************************************)
(* Account-state layer of aion_utils (accounts/src/accounts.rs) over the   *)
(* patricia_trie interface (patricia_trie/src/lib.rs).                     *)
(*                                                                         *)
(* Account handles live in numbered slots.  A handle owns its pending      *)
(* storage changes and refers to its read caches by identity, because the  *)
(* caches are Arc<Mutex<..>> cells that clone_all shares between handles.  *)
(* The backing HashStore is content addressed, so it is modelled by the    *)
(* set of items it holds; a digest is identified with the content it is    *)
(* the digest of (a collision-free hash).                                  *)
(*                                                                         *)
(* The AVM ABI encoder (avm_abi) and the terminal's command parser         *)
(* (terminal/src/parser.rs) are pure functions with specifications of      *)
(* their own, SpecAbi and SpecParser.                                      *)
(***************************************************************************)
EXTENDS Integers, Sequences, FiniteSets, TLC

VARIABLES variant, live, acct, caches, db, res, hung, steps, limit,
          factory, troot, opened, node, tres, abi, cmd,
          address_hash, cells, calls

\* the state of a trie used on its own: the factory's TrieSpec, the H256 the
\* caller hands to the factory, the handle the factory returned, the root node
\* of a TrieDBMut, and the result of the last trie operation
tvars == <<factory, troot, opened, node, tres>>

\* the last call of the AVM ABI encoder (avm_abi) and of the terminal's command
\* parser (terminal/src/parser.rs), each with its result
uvars == <<abi, cmd>>

\* the address-hash cell of each handle (an Arc<Mutex<Cell<Option<H256>>>>, so
\* a cell has an identity that handles can share), what each cell holds, and
\* the address of the address_hash call in flight on each handle
hvars == <<address_hash, cells, calls>>

vars == <<variant, live, acct, caches, db, res, hung, steps, limit,
          factory, troot, opened, node, tres, abi, cmd,
          address_hash, cells, calls>>

(***************************************************************************)
(* Bounds of the model.                                                    *)
(***************************************************************************)
\* storage keys are 0..MaxKey (H128::from(i) for FVM, the byte string for AVM)
MaxKey == 1
\* number of account handles that can be alive at once
NumHandles == 2
\* number of distinct non-empty storage tries the store may come to hold
MaxRoots == 3
\* largest balance and nonce
MaxBalance == 1
MaxNonce == 1
\* number of operations in a run
MaxSteps == 4
\* number of operations in a run of the storage and snapshot operations alone
MaxStepsMerge == 5

Keys == 0..MaxKey
Handles == 1..NumHandles
CacheIds == 1..(2 * NumHandles)

(***************************************************************************)
(* Byte strings and the storage value types.                               *)
(***************************************************************************)
Zeros(n) == [i \in 1..n |-> 0]

\* H128 / H256 are 16 / 32 bytes, most significant byte first
H128Len == 16
H256Len == 32

H128Zero == Zeros(H128Len)
H256Zero == Zeros(H256Len)

\* the values the model stores: 0x1234 in each width, a 256-bit value whose
\* first byte is not zero, and for AVM the empty string, a string of zero
\* bytes and a string with a non-zero byte
NarrowValues == {H128Zero, Zeros(H128Len - 2) \o <<18, 52>>}
WideValues == {H256Zero, Zeros(H256Len - 2) \o <<18, 52>>, <<255>> \o Zeros(H256Len - 1)}
BytesValues == {<< >>, <<0>>, <<18, 52>>}

Variants == {"FVM", "AVM"}
ShapesOf(v) == IF v = "FVM" THEN {"narrow", "wide"} ELSE {"bytes"}
ValuesOf(shape) ==
    CASE shape = "narrow" -> NarrowValues
      [] shape = "wide" -> WideValues
      [] OTHER -> BytesValues

\* v.is_zero() of H128 / H256, and the byte scan of AVMAccount::commit_storage
IsZero(v) == \A i \in 1..Len(v) : v[i] = 0

\* the value of a read that finds no entry
ZeroOf(shape) ==
    CASE shape = "narrow" -> H128Zero
      [] shape = "wide" -> H256Zero
      [] OTHER -> << >>

(***************************************************************************)
(* The rlp codec as the account code calls it.                             *)
(***************************************************************************)
RECURSIVE StripZeros(_)
StripZeros(b) == IF b # << >> /\ b[1] = 0 THEN StripZeros(Tail(b)) ELSE b

PadTo(b, n) == Zeros(n - Len(b)) \o b

\* an rlp byte-string item: one byte below 0x80 is itself, otherwise a length
\* prefix 0x80 + len precedes the bytes (all strings here are short)
RlpString(b) == IF Len(b) = 1 /\ b[1] < 128 THEN b ELSE <<128 + Len(b)>> \o b

\* the payload of a byte-string item, or "malformed"
Malformed == <<-1>>
RlpPayload(e) ==
    IF Len(e) = 1 /\ e[1] < 128 THEN e
    ELSE IF e # << >> /\ e[1] = 128 + Len(e) - 1 THEN Tail(e)
    ELSE Malformed

\* encode(&U128::from(&*v)): an unsigned integer drops its leading zero bytes
EncodeNarrow(v) == RlpString(StripZeros(v))
\* encode(&v) of an H256: the 32 bytes as they are
EncodeWide(v) == RlpString(v)
\* encode(&v) of Bytes
EncodeBytes(v) == RlpString(v)

EncodeOf(shape, v) ==
    CASE shape = "narrow" -> EncodeNarrow(v)
      [] shape = "wide" -> EncodeWide(v)
      [] OTHER -> EncodeBytes(v)

\* rlp::decode::<U128 / U256> then into(): an integer item is refused when it
\* has a leading zero byte or is longer than the type; rlp::decode returns
\* the value itself, not a Result, so a refused item aborts the caller
Abort == <<-2>>
DecodeUint(e, size) ==
    LET p == RlpPayload(e) IN
    IF p = Malformed THEN Abort
    ELSE IF p # << >> /\ p[1] = 0 THEN Abort
    ELSE IF Len(p) > size THEN Abort
    ELSE PadTo(p, size)

DecodeBytes(e) ==
    LET p == RlpPayload(e) IN IF p = Malformed THEN Abort ELSE p

DecodeOf(shape, e) ==
    CASE shape = "narrow" -> DecodeUint(e, H128Len)
      [] shape = "wide" -> DecodeUint(e, H256Len)
      [] OTHER -> DecodeBytes(e)

(***************************************************************************)
(* Finite maps (HashMap, and the LruCache below its capacity).             *)
(***************************************************************************)
EmptyMap == [k \in {} |-> << >>]
Put(m, k, v) == [x \in (DOMAIN m) \cup {k} |-> IF x = k THEN v ELSE m[x]]
\* other's entries over m's
\* a merge in which an entry already there is kept
Merge_KeepOwn(m, other) ==
    [x \in (DOMAIN m) \cup (DOMAIN other) |->
        IF x \in DOMAIN m THEN m[x] ELSE other[x]]

Merge(m, other) ==
    [x \in (DOMAIN m) \cup (DOMAIN other) |-> IF x \in DOMAIN other THEN other[x] ELSE m[x]]

(***************************************************************************)
(* The trie interface.  A trie is the set of <<trie key, value>> pairs it  *)
(* holds; its root digest is identified with that set.                     *)
(***************************************************************************)
Flavors == {"Generic", "Secure", "Fat"}

Blake2b(x) == <<"blake2b", x>>
BLAKE2B_NULL_RLP == {}
BLAKE2B_EMPTY == Blake2b(<< >>)

\* Secure and Fat tries hash the key; a Generic trie uses it as it is
TrieKey(flavor, k) == IF flavor = "Generic" THEN <<"raw", k>> ELSE Blake2b(k)

TrieHas(t, tk) == \E e \in t : e[1] = tk
TrieEntry(t, tk) == CHOOSE e \in t : e[1] = tk
TrieRemove(t, tk) == {e \in t : e[1] # tk}
\* an empty value is a removal
TrieInsert(t, tk, val) ==
    IF val = << >> THEN TrieRemove(t, tk) ELSE TrieRemove(t, tk) \cup {<<tk, val>>}

\* the store: root nodes, leaf nodes, the cleartext keys of Fat tries, code blobs
EmptyStore == [roots |-> {}, leaves |-> {}, fat |-> {}, code |-> {}]

\* the stores a caller can hand to an operation: the backing store, a store
\* that holds nothing, and one that holds the root nodes but not the leaves
Views == {"full", "none", "roots"}
View(store, view) ==
    CASE view = "full" -> store
      [] view = "none" -> EmptyStore
      [] OTHER -> [store EXCEPT !.leaves = {}]

\* db.contains(root), which every HashStore answers for the empty trie
HasRoot(store, root) == root = BLAKE2B_NULL_RLP \/ root \in store.roots

\* Trie::get_with on an opened reader
TrieGet(store, root, tk) ==
    IF ~TrieHas(root, tk) THEN [kind |-> "none", val |-> << >>]
    ELSE IF TrieEntry(root, tk) \notin store.leaves
         THEN [kind |-> "IncompleteDatabase", val |-> << >>]
    ELSE [kind |-> "some", val |-> TrieEntry(root, tk)[2]]

\* what committing the trie `root` leaves in the store: its nodes, and for a
\* Fat trie the cleartext of the keys inserted; nothing is ever overwritten
TrieCommit(store, flavor, root, inserted) ==
    [store EXCEPT !.roots = IF root = BLAKE2B_NULL_RLP THEN @ ELSE @ \cup {root},
                  !.leaves = @ \cup root,
                  !.fat = IF flavor = "Fat" THEN @ \cup inserted ELSE @]

\* impl Default for TrieSpec
TrieSpecDefault == "Secure"

\* H256::new(), the all-zero digest a caller starts from: the digest of no trie
\* (no trie holds an entry with an empty value)
H256New == {<<<<"zero", 0>>, << >>>>}

\* Node::Empty, and the state before any handle is opened or operation made
EmptyNode == [type |-> "Empty"]
NoHandle == [open |-> "none", flavor |-> "-", held |-> {}]
TrieResult(op, key, val, kind, out) ==
    [op |-> op, key |-> key, val |-> val, kind |-> kind, out |-> out]
TrieIdle ==
    /\ factory = TrieSpecDefault
    /\ troot = H256New
    /\ opened = NoHandle
    /\ node = EmptyNode
    /\ tres = TrieResult("-", << >>, << >>, "-", << >>)

\* before any call of the ABI encoder or of the command parser
NoCall == [op |-> "-"]
UtilIdle == abi = NoCall /\ cmd = NoCall

(***************************************************************************)
(* Accounts.                                                               *)
(***************************************************************************)
Codes == {<< >>, <<96, 0>>}

\* Option<usize>: None is -1
NoSize == -1

\* the record of a slot that holds no handle
FreeAcct ==
    [balance |-> 0, nonce |-> 0, storage_root |-> BLAKE2B_NULL_RLP,
     storage_cache |-> 0, storage_changes |-> EmptyMap,
     storage_cache_dword |-> 0, storage_changes_dword |-> EmptyMap,
     code_hash |-> BLAKE2B_EMPTY, code_size |-> NoSize, code_cache |-> << >>,
     code_filth |-> "Clean"]

\* the cache cells some live handle refers to
UsedCaches(lv, ac) ==
    {ac[h].storage_cache : h \in lv} \cup {ac[h].storage_cache_dword : h \in lv}

\* Arc::new(Mutex::new(StorageCache {..})): cells no handle refers to
Min(S) == CHOOSE x \in S : \A y \in S : x <= y
FreshCache == Min(CacheIds \ UsedCaches(live, acct))
FreshCacheDword ==
    IF variant = "FVM" THEN Min(CacheIds \ (UsedCaches(live, acct) \cup {FreshCache})) ELSE 0

\* a cell dropped by its last handle is gone: it reads as a new, empty cell
Collect(lv, ac, cs) ==
    [c \in CacheIds |-> IF c \in UsedCaches(lv, ac) THEN cs[c] ELSE EmptyMap]

\* addresses are 1..NumAddresses
NumAddresses == 2
Addresses == 1..NumAddresses
HashCells == 1..NumHandles
\* Cell::new(None), and no call in flight
NoHash == << >>
NoAddress == 0

\* the cells some live handle refers to; the others read as new
CollectHashes(lv, ah, cs) ==
    [c \in HashCells |-> IF c \in {ah[h] : h \in lv} THEN cs[c] ELSE NoHash]
\* Arc::new(Mutex::new(Cell::new(None))): a cell no handle refers to
FreshHashCell == Min(HashCells \ {address_hash[h] : h \in live})

\* the address-hash cells of the handles in lv, each with a cell of its own
OwnCells(lv) ==
    /\ address_hash = [h \in Handles |-> IF h \in lv THEN h ELSE 0]
    /\ cells = [c \in HashCells |-> NoHash]
    /\ calls = [h \in Handles |-> NoAddress]

new_contract(balance, nonce) ==
    [FreeAcct EXCEPT !.balance = balance, !.nonce = nonce,
                     !.storage_cache = FreshCache,
                     !.storage_cache_dword = FreshCacheDword]

new_basic(balance, nonce) ==
    [FreeAcct EXCEPT !.balance = balance, !.nonce = nonce,
                     !.storage_cache = FreshCache,
                     !.storage_cache_dword = FreshCacheDword,
                     !.code_size = 0]

storage_is_clean(A) ==
    IF variant = "FVM"
    THEN A.storage_changes = EmptyMap /\ A.storage_changes_dword = EmptyMap
    ELSE A.storage_changes = EmptyMap

\* the pending map and the cache cell of a key/value shape
ChangesOf(A, shape) ==
    IF shape = "wide" THEN A.storage_changes_dword ELSE A.storage_changes
CacheOf(A, shape) ==
    IF shape = "wide" THEN A.storage_cache_dword ELSE A.storage_cache

\* an operation starts when no earlier one hangs, and is counted
Ready == ~hung /\ steps < limit
Count == steps' = steps + 1 /\ limit' = limit /\ UNCHANGED <<tvars, uvars>>
\* an operation that leaves the address-hash cells alone
Tick == Count /\ UNCHANGED hvars

\* the result of an operation, as the last one left it; `key` is the storage
\* key of a storage operation, the amount of a balance operation and the other
\* handle of a snapshot or of overwrite_with
Result(op, h, shape, key, kind, val) ==
    [op |-> op, h |-> h, shape |-> shape, key |-> key, kind |-> kind, val |-> val,
     view |-> "-", flavor |-> "-"]

Init ==
    /\ variant \in Variants
    /\ live = {1}
    /\ acct = [h \in Handles |->
                  IF h = 1
                  THEN [FreeAcct EXCEPT !.storage_cache = 1,
                                        !.storage_cache_dword =
                                            IF variant = "FVM" THEN 2 ELSE 0,
                                        !.code_size = 0]
                  ELSE FreeAcct]
    /\ caches = [c \in CacheIds |-> EmptyMap]
    /\ db = EmptyStore
    /\ res = Result("new_basic", 1, "-", 0, "ok", << >>)
    /\ hung = FALSE
    /\ steps = 0
    /\ limit = MaxSteps
    /\ OwnCells({1})
    /\ TrieIdle
    /\ UtilIdle

(***************************************************************************)
(* AccountStorage: cached_storage_at, storage_at, set_storage.             *)
(***************************************************************************)
\* cached_storage_at with the two lookups in the other order
cached_storage_at_CacheFirst(changes, cache, k) ==
    IF k \in DOMAIN cache THEN [kind |-> "some", val |-> cache[k]]
    ELSE IF k \in DOMAIN changes THEN [kind |-> "some", val |-> changes[k]]
    ELSE [kind |-> "none", val |-> << >>]

\* cached_storage_at: the pending change, else the cached value
cached_storage_at(changes, cache, k) ==
    IF k \in DOMAIN changes THEN [kind |-> "some", val |-> changes[k]]
    ELSE IF k \in DOMAIN cache THEN [kind |-> "some", val |-> cache[k]]
    ELSE [kind |-> "none", val |-> << >>]

\* storage_at reading through TrieDB (unhashed keys) instead of SecTrieDB
StorageAt_Unhashed(changes, cache, root, store, shape, k) ==
    LET hit == cached_storage_at(changes, cache, k) IN
    IF hit.kind = "some" THEN [kind |-> "ok", val |-> hit.val, cache |-> cache]
    ELSE IF ~HasRoot(store, root)
         THEN [kind |-> "InvalidStateRoot", val |-> << >>, cache |-> cache]
    ELSE LET got == TrieGet(store, root, TrieKey("Generic", k)) IN
         IF got.kind = "IncompleteDatabase"
         THEN [kind |-> "IncompleteDatabase", val |-> << >>, cache |-> cache]
         ELSE LET value == IF got.kind = "none" THEN ZeroOf(shape)
                           ELSE DecodeOf(shape, got.val) IN
              IF value = Abort THEN [kind |-> "abort", val |-> << >>, cache |-> cache]
              ELSE [kind |-> "ok", val |-> value, cache |-> Put(cache, k, value)]

\* storage_at taking a sub-trie or an entry the store lacks for an absent key
StorageAt_MaskGap(changes, cache, root, store, shape, k) ==
    LET hit == cached_storage_at(changes, cache, k)
        got == TrieGet(store, root, TrieKey("Secure", k))
        value == IF ~HasRoot(store, root) \/ got.kind # "some" THEN ZeroOf(shape)
                 ELSE DecodeOf(shape, got.val)
    IN IF hit.kind = "some" THEN [kind |-> "ok", val |-> hit.val, cache |-> cache]
       ELSE IF value = Abort THEN [kind |-> "abort", val |-> << >>, cache |-> cache]
       ELSE [kind |-> "ok", val |-> value, cache |-> Put(cache, k, value)]

\* storage_at on an account with pending map `changes`, cache contents `cache`
\* and storage root `root`: the result and the cache it leaves
StorageAt(changes, cache, root, store, shape, k) ==
    LET hit == cached_storage_at(changes, cache, k) IN
    IF hit.kind = "some" THEN [kind |-> "ok", val |-> hit.val, cache |-> cache]
    ELSE IF ~HasRoot(store, root)
         THEN [kind |-> "InvalidStateRoot", val |-> << >>, cache |-> cache]
    ELSE LET got == TrieGet(store, root, TrieKey("Secure", k)) IN
         IF got.kind = "IncompleteDatabase"
         THEN [kind |-> "IncompleteDatabase", val |-> << >>, cache |-> cache]
         ELSE LET value == IF got.kind = "none" THEN ZeroOf(shape)
                           ELSE DecodeOf(shape, got.val) IN
              IF value = Abort THEN [kind |-> "abort", val |-> << >>, cache |-> cache]
              ELSE [kind |-> "ok", val |-> value, cache |-> Put(cache, k, value)]

storage_at(a, view, shape, k) ==
    /\ Ready /\ Tick /\ a \in live /\ shape \in ShapesOf(variant)
    /\ LET A == acct[a]
           r == StorageAt(ChangesOf(A, shape), caches[CacheOf(A, shape)],
                          A.storage_root, View(db, view), shape, k)
       IN /\ caches' = [caches EXCEPT ![CacheOf(A, shape)] = r.cache]
          /\ res' = [Result("storage_at", a, shape, k, r.kind, r.val) EXCEPT !.view = view]
    /\ UNCHANGED <<variant, live, acct, db, hung>>

\* set_storage with one pending map for both value shapes
set_storage_OneMap(a, shape, k, v) ==
    /\ Ready /\ Tick /\ a \in live /\ shape \in ShapesOf(variant)
    /\ acct' = [acct EXCEPT ![a] = [@ EXCEPT !.storage_changes = Put(@, k, v)]]
    /\ res' = Result("set_storage", a, shape, k, "ok", v)
    /\ UNCHANGED <<variant, live, caches, db, hung>>

set_storage(a, shape, k, v) ==
    /\ Ready /\ Tick /\ a \in live /\ shape \in ShapesOf(variant)
    /\ acct' = [acct EXCEPT ![a] =
                   IF shape = "wide"
                   THEN [@ EXCEPT !.storage_changes_dword = Put(@, k, v)]
                   ELSE [@ EXCEPT !.storage_changes = Put(@, k, v)]]
    /\ res' = Result("set_storage", a, shape, k, "ok", v)
    /\ UNCHANGED <<variant, live, caches, db, hung>>

(***************************************************************************)
(* commit_storage.                                                         *)
(***************************************************************************)
\* the drain loop without the is_zero test: every value is inserted encoded
RECURSIVE ApplyChanges_KeepZero(_, _, _, _)
ApplyChanges_KeepZero(t, flavor, shape, changes) ==
    IF changes = EmptyMap THEN t
    ELSE LET k == CHOOSE x \in DOMAIN changes : TRUE
             rest == [x \in (DOMAIN changes) \ {k} |-> changes[x]]
             t1 == TrieRemove(t, TrieKey(flavor, k))
                      \cup {<<TrieKey(flavor, k), EncodeOf(shape, changes[k])>>}
         IN ApplyChanges_KeepZero(t1, flavor, shape, rest)

\* the loop over storage_changes.drain(): a zero value removes the key, any
\* other value is inserted encoded
RECURSIVE ApplyChanges(_, _, _, _)
ApplyChanges(t, flavor, shape, changes) ==
    IF changes = EmptyMap THEN t
    ELSE LET k == CHOOSE x \in DOMAIN changes : TRUE
             v == changes[k]
             rest == [x \in (DOMAIN changes) \ {k} |-> changes[x]]
             t1 == IF IsZero(v) THEN TrieRemove(t, TrieKey(flavor, k))
                   ELSE TrieInsert(t, TrieKey(flavor, k), EncodeOf(shape, v))
         IN ApplyChanges(t1, flavor, shape, rest)

Inserted(changes) == {k \in DOMAIN changes : ~IsZero(changes[k])}

\* commit_storage draining storage_changes only
CommitStorage_KeepDword(A, flavor) ==
    LET first == IF variant = "FVM" THEN "narrow" ELSE "bytes"
        t1 == ApplyChanges(A.storage_root, flavor, first, A.storage_changes)
        t2 == IF variant = "FVM"
              THEN ApplyChanges(t1, flavor, "wide", A.storage_changes_dword)
              ELSE t1
    IN [A EXCEPT !.storage_root = t2, !.storage_changes = EmptyMap]

\* commit_storage opening the trie with TrieFactory::create, from the empty root
CommitStorage_FromEmpty(A, flavor) ==
    LET first == IF variant = "FVM" THEN "narrow" ELSE "bytes"
        t1 == ApplyChanges(BLAKE2B_NULL_RLP, flavor, first, A.storage_changes)
        t2 == IF variant = "FVM"
              THEN ApplyChanges(t1, flavor, "wide", A.storage_changes_dword)
              ELSE t1
    IN [A EXCEPT !.storage_root = t2,
                 !.storage_changes = EmptyMap,
                 !.storage_changes_dword = EmptyMap]

\* the account and the trie after a commit_storage that opened the trie
CommitStorage(A, flavor) ==
    LET first == IF variant = "FVM" THEN "narrow" ELSE "bytes"
        t1 == ApplyChanges(A.storage_root, flavor, first, A.storage_changes)
        t2 == IF variant = "FVM"
              THEN ApplyChanges(t1, flavor, "wide", A.storage_changes_dword)
              ELSE t1
    IN [A EXCEPT !.storage_root = t2,
                 !.storage_changes = EmptyMap,
                 !.storage_changes_dword = EmptyMap]

\* m restricted to the keys S
Restrict(m, S) == [x \in S |-> m[x]]

\* t.insert and t.remove walk to the key: they fail with IncompleteDatabase
\* when the entry they reach is a node the store lacks (one this commit wrote
\* is still in memory)
Unreadable(store, written, t, tk) ==
    TrieHas(t, tk) /\ TrieEntry(t, tk) \notin store.leaves \cup written
FailingKeys(store, written, t, flavor, changes) ==
    {k \in DOMAIN changes : Unreadable(store, written, t, TrieKey(flavor, k))}

\* the handle after `?` left a drain loop at a failing key: the changes of
\* `done` were applied before it (a HashMap drains in any order), the Drain is
\* dropped and takes every remaining entry of the map with it, and the trie
\* handle, dropped too, leaves the root of what was applied in storage_root
LeaveLoop(A, flavor, shape, t, done) ==
    LET B == [A EXCEPT !.storage_root =
                           ApplyChanges(t, flavor, shape,
                                        Restrict(ChangesOf(A, shape), done))]
    IN IF shape = "wide"
       THEN [B EXCEPT !.storage_changes = EmptyMap,
                      !.storage_changes_dword = EmptyMap]
       ELSE [B EXCEPT !.storage_changes = EmptyMap]

\* a store that lacks the leaves is handed in only where it makes the commit
\* fail: what a successful commit writes to another store is not tracked
commit_storage(a, flavor, view) ==
    /\ Ready /\ Tick /\ a \in live
    /\ view = "none" => acct[a].storage_root # BLAKE2B_NULL_RLP
    /\ LET A == acct[a]
           B == CommitStorage(A, flavor)
           store == View(db, view)
           first == IF variant = "FVM" THEN "narrow" ELSE "bytes"
           t1 == ApplyChanges(A.storage_root, flavor, first, A.storage_changes)
           F1 == FailingKeys(store, {}, A.storage_root, flavor, A.storage_changes)
           F2 == IF variant = "FVM"
                 THEN FailingKeys(store, t1 \ A.storage_root, t1, flavor,
                                  A.storage_changes_dword)
                 ELSE {}
       IN IF ~HasRoot(store, A.storage_root)
          THEN /\ res' = [Result("commit_storage", a, "-", 0, "InvalidStateRoot", << >>)
                           EXCEPT !.view = view, !.flavor = flavor]
               /\ UNCHANGED <<acct, caches, db>>
          ELSE IF F1 # {}
          THEN \E done \in SUBSET ((DOMAIN A.storage_changes) \ F1) :
                  /\ acct' = [acct EXCEPT ![a] =
                                 LeaveLoop(A, flavor, first, A.storage_root, done)]
                  /\ caches' = [caches EXCEPT ![A.storage_cache] =
                                   Merge(@, Restrict(A.storage_changes, done))]
                  /\ res' = [Result("commit_storage", a, first, 0,
                                    "IncompleteDatabase", << >>)
                              EXCEPT !.view = view, !.flavor = flavor]
                  /\ UNCHANGED db
          ELSE IF F2 # {}
          THEN \E done \in SUBSET ((DOMAIN A.storage_changes_dword) \ F2) :
                  /\ acct' = [acct EXCEPT ![a] =
                                 LeaveLoop(A, flavor, "wide", t1, done)]
                  /\ caches' =
                        [c \in CacheIds |->
                           LET c1 == IF c = A.storage_cache
                                     THEN Merge(caches[c], A.storage_changes)
                                     ELSE caches[c]
                           IN IF c = A.storage_cache_dword
                              THEN Merge(c1, Restrict(A.storage_changes_dword, done))
                              ELSE c1]
                  /\ res' = [Result("commit_storage", a, "wide", 0,
                                    "IncompleteDatabase", << >>)
                              EXCEPT !.view = view, !.flavor = flavor]
                  /\ UNCHANGED db
          ELSE /\ view # "roots"
               /\ B.storage_root \notin db.roots \cup {BLAKE2B_NULL_RLP}
                     => Cardinality(db.roots) < MaxRoots
               /\ acct' = [acct EXCEPT ![a] = B]
               /\ caches' =
                     [c \in CacheIds |->
                        LET c1 == IF c = A.storage_cache
                                  THEN Merge(caches[c], A.storage_changes)
                                  ELSE caches[c]
                        IN IF variant = "FVM" /\ c = A.storage_cache_dword
                           THEN Merge(c1, A.storage_changes_dword)
                           ELSE c1]
               /\ db' = TrieCommit(db, flavor, B.storage_root,
                                   Inserted(A.storage_changes)
                                       \cup Inserted(A.storage_changes_dword))
               /\ res' = [Result("commit_storage", a, "-", 0, "ok", << >>)
                           EXCEPT !.view = view, !.flavor = flavor]
    /\ UNCHANGED <<variant, live, hung>>

(***************************************************************************)
(* The serialized record: rlp() and from_rlp().                            *)
(***************************************************************************)
\* an unsigned integer item: zero is the empty string, a small value its byte
RlpUint(n) == IF n = 0 THEN <<128>> ELSE <<n>>
UintOf(e) == IF e = <<128>> THEN 0 ELSE e[1]

\* RlpStream::new_list(4) with nonce, balance, storage_root, code_hash
Rlp(A) ==
    <<RlpUint(A.nonce), RlpUint(A.balance), <<"H256", A.storage_root>>,
      <<"H256", A.code_hash>>>>

\* a U256 item: the empty string, or the bytes of the value without a leading
\* zero (here one byte below 128)
ValidUint(e) == e = <<128>> \/ (Len(e) = 1 /\ e[1] \in 1..127)

\* the records rlp::decode::<BasicAccount> accepts: a list of four items, the
\* first two of them U256 items
WellFormed(bytes) == Len(bytes) = 4 /\ ValidUint(bytes[1]) /\ ValidUint(bytes[2])

\* records it rejects: a list of three items, and a nonce with a leading zero
MalformedRecords ==
    {<<<<128>>, <<128>>, <<"H256", BLAKE2B_NULL_RLP>>>>,
     <<<<129, 0>>, <<128>>, <<"H256", BLAKE2B_NULL_RLP>>, <<"H256", BLAKE2B_EMPTY>>>>}

\* the decoder taking the fields in the order balance, nonce
DecodeBasic_Swapped(bytes) ==
    [nonce |-> UintOf(bytes[2]), balance |-> UintOf(bytes[1]),
     storage_root |-> bytes[3][2], code_hash |-> bytes[4][2]]

\* rlp::decode::<BasicAccount> of a well-formed record
DecodeBasic(bytes) ==
    [nonce |-> UintOf(bytes[1]), balance |-> UintOf(bytes[2]),
     storage_root |-> bytes[3][2], code_hash |-> bytes[4][2]]

\* impl From<BasicAccount>
FromBasic(basic) ==
    [FreeAcct EXCEPT !.balance = basic.balance, !.nonce = basic.nonce,
                     !.storage_root = basic.storage_root,
                     !.storage_cache = FreshCache,
                     !.storage_cache_dword = FreshCacheDword,
                     !.code_hash = basic.code_hash]

\* the byte strings handed to from_rlp: the record of a live account, or a
\* malformed one
Records == {Rlp(acct[a]) : a \in live} \cup MalformedRecords

\* from_rlp(bytes), the account put into the free slot b; ::rlp::decode returns
\* the value and panics when the bytes do not decode
from_rlp(bytes, b) ==
    /\ Ready /\ Count /\ b \notin live
    /\ IF WellFormed(bytes)
       THEN /\ acct' = [acct EXCEPT ![b] = FromBasic(DecodeBasic(bytes))]
            /\ live' = live \cup {b}
            /\ address_hash' = [address_hash EXCEPT ![b] = FreshHashCell]
            /\ res' = Result("from_rlp", b, "-", 0, "ok", bytes)
       ELSE /\ UNCHANGED <<acct, live, address_hash>>
            /\ res' = Result("from_rlp", b, "-", 0, "abort", bytes)
    /\ UNCHANGED <<cells, calls>>
    /\ UNCHANGED <<variant, caches, db, hung>>

rlp(a) ==
    /\ Ready /\ Tick /\ a \in live
    /\ res' = Result("rlp", a, "-", 0, "ok", Rlp(acct[a]))
    /\ UNCHANGED <<variant, live, acct, caches, db, hung>>

(***************************************************************************)
(* Snapshots: clone_basic, clone_dirty, clone_all, Clone, overwrite_with.  *)
(***************************************************************************)
CloneBasic(A) ==
    [A EXCEPT !.storage_cache = FreshCache,
              !.storage_changes = EmptyMap,
              !.storage_cache_dword = FreshCacheDword,
              !.storage_changes_dword = EmptyMap]

\* clone_basic, then storage_changes and code_cache of the original
CloneDirty(A) ==
    [CloneBasic(A) EXCEPT !.storage_changes = A.storage_changes,
                          !.code_cache = A.code_cache]

\* clone_dirty, then the two cache cells of the original
CloneAll(A) ==
    [CloneDirty(A) EXCEPT !.storage_cache = A.storage_cache,
                          !.storage_cache_dword = A.storage_cache_dword]

\* address_hash: self.address_hash.clone(): the new handle refers to the cell of
\* the old one
ShareCell(a, b) ==
    /\ address_hash' = [address_hash EXCEPT ![b] = address_hash[a]]
    /\ UNCHANGED <<cells, calls>>

clone_basic(a, b) ==
    /\ Ready /\ Count /\ a \in live /\ b \notin live
    /\ acct' = [acct EXCEPT ![b] = CloneBasic(acct[a])]
    /\ ShareCell(a, b)
    /\ live' = live \cup {b}
    /\ res' = Result("clone_basic", b, "-", a, "ok", << >>)
    /\ UNCHANGED <<variant, caches, db, hung>>

clone_dirty(a, b) ==
    /\ Ready /\ Count /\ a \in live /\ b \notin live
    /\ acct' = [acct EXCEPT ![b] = CloneDirty(acct[a])]
    /\ ShareCell(a, b)
    /\ live' = live \cup {b}
    /\ res' = Result("clone_dirty", b, "-", a, "ok", << >>)
    /\ UNCHANGED <<variant, caches, db, hung>>

\* only FVMAccount has clone_all
clone_all(a, b) ==
    /\ Ready /\ Count /\ a \in live /\ b \notin live /\ variant = "FVM"
    /\ acct' = [acct EXCEPT ![b] = CloneAll(acct[a])]
    /\ ShareCell(a, b)
    /\ live' = live \cup {b}
    /\ res' = Result("clone_all", b, "-", a, "ok", << >>)
    /\ UNCHANGED <<variant, caches, db, hung>>

\* #[derive(Clone)]: every field cloned, an Arc by reference
clone(a, b) ==
    /\ Ready /\ Count /\ a \in live /\ b \notin live
    /\ acct' = [acct EXCEPT ![b] = acct[a]]
    /\ ShareCell(a, b)
    /\ live' = live \cup {b}
    /\ res' = Result("clone", b, "-", a, "ok", << >>)
    /\ UNCHANGED <<variant, caches, db, hung>>

\* the fields overwrite_with assigns before it takes a lock
OverwriteBasic(A, other) ==
    [A EXCEPT !.balance = other.balance, !.nonce = other.nonce,
              !.storage_root = other.storage_root,
              !.code_hash = other.code_hash, !.code_filth = other.code_filth,
              !.code_cache = other.code_cache, !.code_size = other.code_size]

\* self.overwrite_with(other), other moved in and dropped.  The locks of self's
\* and of other's cache are held together, and the Mutex is not reentrant
overwrite_with(a, b) ==
    /\ Ready /\ Count /\ a \in live /\ b \in live /\ a # b
    /\ calls[a] = NoAddress /\ calls[b] = NoAddress
    /\ LET A == acct[a]
           other == acct[b]
       IN IF A.storage_cache = other.storage_cache
             \/ (variant = "FVM" /\ A.storage_cache_dword = other.storage_cache_dword)
          THEN /\ acct' = [acct EXCEPT ![a] = OverwriteBasic(A, other)]
               /\ hung' = TRUE
               /\ res' = Result("overwrite_with", a, "-", b, "deadlock", << >>)
               /\ address_hash' = [address_hash EXCEPT ![a] = address_hash[b]]
               /\ cells' = CollectHashes(live, address_hash', cells)
               /\ UNCHANGED <<live, caches, calls>>
          ELSE LET B == [OverwriteBasic(A, other) EXCEPT
                            !.storage_changes = other.storage_changes,
                            !.storage_changes_dword = other.storage_changes_dword]
                   merged ==
                       [c \in CacheIds |->
                          IF c = A.storage_cache
                          THEN Merge(caches[c], caches[other.storage_cache])
                          ELSE IF variant = "FVM" /\ c = A.storage_cache_dword
                          THEN Merge(caches[c], caches[other.storage_cache_dword])
                          ELSE caches[c]]
                   ac == [acct EXCEPT ![a] = B, ![b] = FreeAcct]
               IN /\ acct' = ac
                  /\ live' = live \ {b}
                  /\ caches' = Collect(live \ {b}, ac, merged)
                  /\ res' = Result("overwrite_with", a, "-", b, "ok", << >>)
                  /\ address_hash' = [address_hash EXCEPT ![a] = address_hash[b],
                                                          ![b] = 0]
                  /\ cells' = CollectHashes(live \ {b}, address_hash', cells)
                  /\ calls' = calls
                  /\ hung' = hung
    /\ UNCHANGED <<variant, db>>

\* a handle goes out of scope
drop(a) ==
    /\ Ready /\ Count /\ a \in live /\ live # {a}
    /\ calls[a] = NoAddress
    /\ address_hash' = [address_hash EXCEPT ![a] = 0]
    /\ cells' = CollectHashes(live \ {a}, address_hash', cells)
    /\ calls' = calls
    /\ LET ac == [acct EXCEPT ![a] = FreeAcct]
       IN /\ acct' = ac
          /\ caches' = Collect(live \ {a}, ac, caches)
    /\ live' = live \ {a}
    /\ res' = Result("drop", a, "-", 0, "ok", << >>)
    /\ UNCHANGED <<variant, db, hung>>

(***************************************************************************)
(* Account: storage_root, is_empty, nonce and balance.                     *)
(***************************************************************************)
is_null(A) == A.balance = 0 /\ A.nonce = 0 /\ A.code_hash = BLAKE2B_EMPTY

\* storage_root() looking at storage_changes only
StorageRoot_Narrow(A) == IF A.storage_changes = EmptyMap THEN "some" ELSE "none"

\* storage_root(): Some(&storage_root) when storage is clean, else None
StorageRoot(A) == IF storage_is_clean(A) THEN "some" ELSE "none"

storage_root(a) ==
    /\ Ready /\ Tick /\ a \in live
    /\ res' = Result("storage_root", a, "-", 0, StorageRoot(acct[a]), << >>)
    /\ UNCHANGED <<variant, live, acct, caches, db, hung>>

\* is_empty() without the comparison of storage_root
IsEmpty_NoRoot(A) ==
    IF ~storage_is_clean(A) THEN "abort"
    ELSE IF is_null(A) THEN "true"
    ELSE "false"

\* is_empty(): asserts that storage is clean
IsEmpty(A) ==
    IF ~storage_is_clean(A) THEN "abort"
    ELSE IF is_null(A) /\ A.storage_root = BLAKE2B_NULL_RLP THEN "true"
    ELSE "false"

is_empty(a) ==
    /\ Ready /\ Tick /\ a \in live
    /\ res' = Result("is_empty", a, "-", 0, IsEmpty(acct[a]), << >>)
    /\ UNCHANGED <<variant, live, acct, caches, db, hung>>

inc_nonce(a) ==
    /\ Ready /\ Tick /\ a \in live
    /\ acct[a].nonce < MaxNonce
    /\ acct' = [acct EXCEPT ![a].nonce = @ + 1]
    /\ res' = Result("inc_nonce", a, "-", 0, "ok", << >>)
    /\ UNCHANGED <<variant, live, caches, db, hung>>

add_balance(a, x) ==
    /\ Ready /\ Tick /\ a \in live
    /\ acct[a].balance + x <= MaxBalance
    /\ acct' = [acct EXCEPT ![a].balance = @ + x]
    /\ res' = Result("add_balance", a, "-", x, "ok", << >>)
    /\ UNCHANGED <<variant, live, caches, db, hung>>

\* sub_balance without the assertion, stopping at zero
sub_balance_Saturating(a, x) ==
    /\ Ready /\ Tick /\ a \in live
    /\ acct' = [acct EXCEPT ![a].balance = IF @ >= x THEN @ - x ELSE 0]
    /\ res' = Result("sub_balance", a, "-", x, "ok", << >>)
    /\ UNCHANGED <<variant, live, caches, db, hung>>

\* sub_balance asserts balance >= x
sub_balance(a, x) ==
    /\ Ready /\ Tick /\ a \in live
    /\ IF acct[a].balance >= x
       THEN /\ acct' = [acct EXCEPT ![a].balance = @ - x]
            /\ res' = Result("sub_balance", a, "-", x, "ok", << >>)
       ELSE /\ acct' = acct
            /\ res' = Result("sub_balance", a, "-", x, "abort", << >>)
    /\ UNCHANGED <<variant, live, caches, db, hung>>

(***************************************************************************)
(* Account: code.                                                          *)
(***************************************************************************)
\* HashStore::get of a code blob: the bytes stored under the digest
HasCode(store, hash) == \E e \in store.code : e[1] = hash
CodeAt(store, hash) == (CHOOSE e \in store.code : e[1] = hash)[2]
\* HashStore::emplace: an entry already there stays
Emplace(store, hash, bytes) ==
    IF HasCode(store, hash) THEN store
    ELSE [store EXCEPT !.code = @ \cup {<<hash, bytes>>}]

\* init_code writing the code through to the store at once
init_code_Emplace(a, code) ==
    /\ Ready /\ Tick /\ a \in live
    /\ acct' = [acct EXCEPT ![a] =
                   [@ EXCEPT !.code_hash = Blake2b(code), !.code_cache = code,
                             !.code_size = Len(code), !.code_filth = "Clean"]]
    /\ db' = Emplace(db, Blake2b(code), code)
    /\ res' = Result("init_code", a, "-", 0, "ok", code)
    /\ UNCHANGED <<variant, live, caches, hung>>

InitCode(A, code) ==
    [A EXCEPT !.code_hash = Blake2b(code), !.code_cache = code,
              !.code_size = Len(code), !.code_filth = "Dirty"]

init_code(a, code) ==
    /\ Ready /\ Tick /\ a \in live
    /\ acct' = [acct EXCEPT ![a] = InitCode(@, code)]
    /\ res' = Result("init_code", a, "-", 0, "ok", code)
    /\ UNCHANGED <<variant, live, caches, db, hung>>

reset_code(a, code) ==
    /\ Ready /\ Tick /\ a \in live
    /\ acct' = [acct EXCEPT ![a] = InitCode(@, code)]
    /\ res' = Result("reset_code", a, "-", 0, "ok", code)
    /\ UNCHANGED <<variant, live, caches, db, hung>>

is_cached(A) ==
    A.code_cache # << >> \/ (A.code_cache = << >> /\ A.code_hash = BLAKE2B_EMPTY)

\* cache_code that trusts the cache only and never asks the store
CacheCode_NoStore(A, store) ==
    IF is_cached(A) THEN [kind |-> "some", val |-> A.code_cache, acct |-> A]
    ELSE [kind |-> "none", val |-> << >>, acct |-> A]

\* cache_code on account A: what it returns and the account it leaves
CacheCode(A, store) ==
    IF is_cached(A) THEN [kind |-> "some", val |-> A.code_cache, acct |-> A]
    ELSE IF HasCode(store, A.code_hash)
    THEN LET x == CodeAt(store, A.code_hash)
         IN [kind |-> "some", val |-> x,
             acct |-> [A EXCEPT !.code_size = Len(x), !.code_cache = x]]
    ELSE [kind |-> "none", val |-> << >>, acct |-> A]

cache_code(a, view) ==
    /\ Ready /\ Tick /\ a \in live
    /\ LET r == CacheCode(acct[a], View(db, view))
       IN /\ acct' = [acct EXCEPT ![a] = r.acct]
          /\ res' = [Result("cache_code", a, "-", 0, r.kind, r.val) EXCEPT !.view = view]
    /\ UNCHANGED <<variant, live, caches, db, hung>>

cache_given_code(a, code) ==
    /\ Ready /\ Tick /\ a \in live
    /\ acct' = [acct EXCEPT ![a].code_size = Len(code), ![a].code_cache = code]
    /\ res' = Result("cache_given_code", a, "-", 0, "ok", code)
    /\ UNCHANGED <<variant, live, caches, db, hung>>

cache_code_size(a, view) ==
    /\ Ready /\ Tick /\ a \in live
    /\ LET A == acct[a]
           store == View(db, view)
       IN IF A.code_size # NoSize
          THEN /\ acct' = acct
               /\ res' = [Result("cache_code_size", a, "-", 0, "true", << >>) EXCEPT !.view = view]
          ELSE IF A.code_hash # BLAKE2B_EMPTY /\ HasCode(store, A.code_hash)
          THEN /\ acct' = [acct EXCEPT ![a].code_size = Len(CodeAt(store, A.code_hash))]
               /\ res' = [Result("cache_code_size", a, "-", 0, "true", << >>) EXCEPT !.view = view]
          ELSE /\ acct' = acct
               /\ res' = [Result("cache_code_size", a, "-", 0, "false", << >>) EXCEPT !.view = view]
    /\ UNCHANGED <<variant, live, caches, db, hung>>

\* commit_code writing the cached code whatever code_filth says
commit_code_Always(a) ==
    /\ Ready /\ Tick /\ a \in live
    /\ LET A == acct[a]
       IN IF A.code_cache = << >>
          THEN /\ acct' = [acct EXCEPT ![a].code_size = 0, ![a].code_filth = "Clean"]
               /\ db' = db
          ELSE /\ db' = Emplace(db, A.code_hash, A.code_cache)
               /\ acct' = [acct EXCEPT ![a].code_size = Len(A.code_cache),
                                       ![a].code_filth = "Clean"]
    /\ res' = Result("commit_code", a, "-", 0, "ok", << >>)
    /\ UNCHANGED <<variant, live, caches, hung>>

commit_code(a) ==
    /\ Ready /\ Tick /\ a \in live
    /\ LET A == acct[a]
       IN IF A.code_filth = "Dirty" /\ A.code_cache = << >>
          THEN /\ acct' = [acct EXCEPT ![a].code_size = 0, ![a].code_filth = "Clean"]
               /\ db' = db
          ELSE IF A.code_filth = "Dirty"
          THEN /\ db' = Emplace(db, A.code_hash, A.code_cache)
               /\ acct' = [acct EXCEPT ![a].code_size = Len(A.code_cache),
                                       ![a].code_filth = "Clean"]
          ELSE /\ acct' = acct
               /\ db' = db
    /\ res' = Result("commit_code", a, "-", 0, "ok", << >>)
    /\ UNCHANGED <<variant, live, caches, hung>>

(***************************************************************************)
(* The specification.                                                      *)
(***************************************************************************)
\* the storage operations and the snapshots
NextStorage ==
    \/ \E a \in Handles, view \in Views, shape \in {"narrow", "wide", "bytes"},
          k \in Keys : storage_at(a, view, shape, k)
    \/ \E a \in Handles, shape \in {"narrow", "wide", "bytes"}, k \in Keys :
          \E v \in ValuesOf(shape) : set_storage(a, shape, k, v)
    \/ \E a \in Handles, flavor \in Flavors, view \in Views :
          commit_storage(a, flavor, view)
    \/ \E b \in Handles : \E bytes \in Records : from_rlp(bytes, b)
    \/ \E a \in Handles, b \in Handles : clone_basic(a, b)
    \/ \E a \in Handles, b \in Handles : clone_dirty(a, b)
    \/ \E a \in Handles, b \in Handles : clone_all(a, b)
    \/ \E a \in Handles, b \in Handles : clone(a, b)
    \/ \E a \in Handles, b \in Handles : overwrite_with(a, b)
    \/ \E a \in Handles : drop(a)
    \/ \E a \in Handles : storage_root(a)
    \/ \E a \in Handles : is_empty(a)

\* nonce, balance, code and the serialized record
NextBasic ==
    \/ \E a \in Handles : rlp(a)
    \/ \E a \in Handles : inc_nonce(a)
    \/ \E a \in Handles, x \in 1..MaxBalance : add_balance(a, x)
    \/ \E a \in Handles, x \in 1..MaxBalance : sub_balance(a, x)
    \/ \E a \in Handles, code \in Codes : init_code(a, code)
    \/ \E a \in Handles, code \in Codes : reset_code(a, code)
    \/ \E a \in Handles, view \in Views : cache_code(a, view)
    \/ \E a \in Handles, code \in Codes : cache_given_code(a, code)
    \/ \E a \in Handles, view \in Views : cache_code_size(a, view)
    \/ \E a \in Handles : commit_code(a)

Next == NextStorage \/ NextBasic

Spec == Init /\ [][Next]_vars

\* longer runs of reads, writes and commits on the default (Secure) trie and the
\* whole store, with clone_basic and overwrite_with
InitMerge ==
    /\ variant \in Variants
    /\ live = {1}
    /\ acct = [h \in Handles |->
                  IF h = 1
                  THEN [FreeAcct EXCEPT !.storage_cache = 1,
                                        !.storage_cache_dword =
                                            IF variant = "FVM" THEN 2 ELSE 0,
                                        !.code_size = 0]
                  ELSE FreeAcct]
    /\ caches = [c \in CacheIds |-> EmptyMap]
    /\ db = EmptyStore
    /\ res = Result("new_basic", 1, "-", 0, "ok", << >>)
    /\ hung = FALSE
    /\ steps = 0
    /\ limit = MaxStepsMerge
    /\ OwnCells({1})
    /\ TrieIdle
    /\ UtilIdle

NextMerge ==
    \/ \E a \in Handles, shape \in {"narrow", "wide", "bytes"}, k \in Keys :
          storage_at(a, "full", shape, k)
    \/ \E a \in Handles, shape \in {"narrow", "wide", "bytes"}, k \in Keys :
          \E v \in ValuesOf(shape) : set_storage(a, shape, k, v)
    \/ \E a \in Handles : commit_storage(a, "Secure", "full")
    \/ \E a \in Handles, b \in Handles : clone_basic(a, b)
    \/ \E a \in Handles, b \in Handles : overwrite_with(a, b)

SpecMerge == InitMerge /\ [][NextMerge]_vars

(***************************************************************************)
(* address_hash: the cached digest of the owning address.  The handler     *)
(* takes the lock twice, to read the cell and to store into it, so calls   *)
(* on handles that share a cell interleave between its two steps.          *)
(***************************************************************************)
\* number of operations in a run of address_hash and the snapshot operations
MaxStepsAddr == 5

\* hash.unwrap_or_else(|| blake2b(address)) computing the digest in any case
HashOr_Recompute(hash, address) == Blake2b(address)

\* hash.unwrap_or_else(|| blake2b(address)): the digest read from the cell when
\* there is one, whatever the address; else the digest of the address
HashOr(hash, address) == IF hash # NoHash THEN hash ELSE Blake2b(address)

\* `let hash = self.address_hash.lock().get();` and, with Some, the return
address_hash_get(h, address) ==
    /\ Ready /\ Count /\ h \in live /\ calls[h] = NoAddress
    /\ LET hash == cells[address_hash[h]]
       IN IF hash # NoHash
          THEN /\ res' = Result("address_hash", h, "-", address, "ok",
                                HashOr(hash, address))
               /\ calls' = calls
          ELSE /\ res' = Result("address_hash", h, "-", address, "computing", << >>)
               /\ calls' = [calls EXCEPT ![h] = address]
    /\ UNCHANGED <<variant, live, acct, caches, db, hung, address_hash, cells>>

\* the closure: `self.address_hash.lock().set(Some(hash.clone())); hash`
address_hash_set(h) ==
    /\ Ready /\ Count /\ h \in live /\ calls[h] # NoAddress
    /\ LET hash == HashOr(NoHash, calls[h])
       IN /\ cells' = [cells EXCEPT ![address_hash[h]] = hash]
          /\ res' = Result("address_hash", h, "-", calls[h], "ok", hash)
    /\ calls' = [calls EXCEPT ![h] = NoAddress]
    /\ UNCHANGED <<variant, live, acct, caches, db, hung, address_hash>>

InitAddr ==
    /\ variant \in Variants
    /\ live = {1}
    /\ acct = [h \in Handles |->
                  IF h = 1
                  THEN [FreeAcct EXCEPT !.storage_cache = 1,
                                        !.storage_cache_dword =
                                            IF variant = "FVM" THEN 2 ELSE 0,
                                        !.code_size = 0]
                  ELSE FreeAcct]
    /\ caches = [c \in CacheIds |-> EmptyMap]
    /\ db = EmptyStore
    /\ res = Result("new_basic", 1, "-", 0, "ok", << >>)
    /\ hung = FALSE
    /\ steps = 0
    /\ limit = MaxStepsAddr
    /\ OwnCells({1})
    /\ TrieIdle
    /\ UtilIdle

NextAddr ==
    \/ \E a \in Handles, address \in Addresses : address_hash_get(a, address)
    \/ \E a \in Handles : address_hash_set(a)
    \/ \E a \in Handles, b \in Handles : clone_basic(a, b)
    \/ \E a \in Handles, b \in Handles : clone_dirty(a, b)
    \/ \E a \in Handles, b \in Handles : clone_all(a, b)
    \/ \E a \in Handles, b \in Handles : overwrite_with(a, b)
    \/ \E b \in Handles : from_rlp(Rlp(FreeAcct), b)
    \/ \E a \in Handles : drop(a)

SpecAddr == InitAddr /\ [][NextAddr]_vars

(***************************************************************************)
(* The trie engine (TrieDBMut over a Generic trie): nodes, get, insert,     *)
(* remove with its collapse pass, and the iterator.                        *)
(***************************************************************************)
Nibbles == 0..15

\* the nibbles of a byte-string key, high nibble first, and the bytes of an
\* even number of nibbles
RECURSIVE NibblesOf(_)
NibblesOf(bytes) ==
    IF bytes = << >> THEN << >>
    ELSE <<bytes[1] \div 16, bytes[1] % 16>> \o NibblesOf(Tail(bytes))

RECURSIVE BytesOf(_)
BytesOf(nibbles) ==
    IF Len(nibbles) < 2 THEN << >>
    ELSE <<nibbles[1] * 16 + nibbles[2]>> \o BytesOf(SubSeq(nibbles, 3, Len(nibbles)))

\* the keys and the non-empty values the trie is driven with
TrieKeys == {<<0>>, <<1>>, <<16>>, <<0, 0>>, <<0, 1>>}
TrieValues == {<<7>>, <<8, 9>>}

Leaf(path, value) == [type |-> "Leaf", path |-> path, value |-> value]
Extension(path, child) == [type |-> "Extension", path |-> path, child |-> child]
\* a Branch has 16 child slots and a value; an empty value is no value
Branch(children, value) == [type |-> "Branch", children |-> children, value |-> value]
NoChildren == [i \in Nibbles |-> EmptyNode]

\* NibbleSlice: common_prefix, starts_with, mid
RECURSIVE CommonPrefix(_, _)
CommonPrefix(p, q) ==
    IF p = << >> \/ q = << >> \/ p[1] # q[1] THEN 0
    ELSE 1 + CommonPrefix(Tail(p), Tail(q))
StartsWith(key, p) == CommonPrefix(key, p) = Len(p)
Mid(p, n) == SubSeq(p, n + 1, Len(p))

\* an Option<DBValue>
None == [kind |-> "none", val |-> << >>]
Some(v) == [kind |-> "some", val |-> v]
OptionOf(v) == IF v = << >> THEN None ELSE Some(v)

\* get: the walk from the root, consuming the key nibble by nibble
RECURSIVE Lookup(_, _)
Lookup(n, key) ==
    CASE n.type = "Empty" -> None
      [] n.type = "Leaf" -> IF n.path = key THEN Some(n.value) ELSE None
      [] n.type = "Extension" ->
            IF StartsWith(key, n.path) THEN Lookup(n.child, Mid(key, Len(n.path)))
            ELSE None
      [] OTHER ->
            IF key = << >> THEN OptionOf(n.value)
            ELSE Lookup(n.children[key[1]], Tail(key))

\* the Branch that continues a Leaf or an Extension whose path shares nothing
\* with the key: an exhausted Leaf path makes the value the Branch's own,
\* otherwise the old entry goes into the slot of its first nibble
SplitToBranch(n) ==
    IF n.type = "Leaf"
    THEN IF n.path = << >> THEN Branch(NoChildren, n.value)
         ELSE Branch([NoChildren EXCEPT ![n.path[1]] = Leaf(Tail(n.path), n.value)],
                     << >>)
    ELSE Branch([NoChildren EXCEPT ![n.path[1]] =
                    IF Len(n.path) = 1 THEN n.child
                    ELSE Extension(Tail(n.path), n.child)],
                << >>)

\* the node with its path cut to the nibbles after the first d
CutPath(n, d) ==
    IF n.type = "Leaf" THEN Leaf(Mid(n.path, d), n.value)
    ELSE Extension(Mid(n.path, d), n.child)

\* insert of a non-empty value: the rewritten node and the value held before
RECURSIVE InsertAt(_, _, _)
InsertAt(n, key, value) ==
    CASE n.type = "Empty" -> [node |-> Leaf(key, value), old |-> None]
      [] n.type = "Branch" ->
            IF key = << >>
            THEN [node |-> Branch(n.children, value), old |-> OptionOf(n.value)]
            ELSE LET r == InsertAt(n.children[key[1]], Tail(key), value)
                 IN [node |-> Branch([n.children EXCEPT ![key[1]] = r.node], n.value),
                     old |-> r.old]
      [] OTHER ->
            LET d == CommonPrefix(n.path, key) IN
            IF n.type = "Leaf" /\ n.path = key
            THEN [node |-> Leaf(key, value), old |-> Some(n.value)]
            ELSE IF n.type = "Extension" /\ d = Len(n.path)
            THEN LET r == InsertAt(n.child, Mid(key, d), value)
                 IN [node |-> Extension(n.path, r.node), old |-> r.old]
            ELSE LET r == InsertAt(SplitToBranch(CutPath(n, d)), Mid(key, d), value)
                 IN [node |-> IF d = 0 THEN r.node
                              ELSE Extension(SubSeq(n.path, 1, d), r.node),
                     old |-> r.old]

\* the collapse pass turning a lone child into an Extension without merging it
\* with the node below
RECURSIVE Fix_NoMerge(_)
Fix_NoMerge(n) ==
    IF n.type = "Branch"
    THEN LET used == {i \in Nibbles : n.children[i] # EmptyNode} IN
         IF used = {} /\ n.value = << >> THEN EmptyNode
         ELSE IF used = {} THEN Leaf(<< >>, n.value)
         ELSE IF Cardinality(used) = 1 /\ n.value = << >>
         THEN LET i == CHOOSE x \in used : TRUE
              IN Extension(<<i>>, n.children[i])
         ELSE n
    ELSE n

\* the collapse pass: a Branch left with one child and no value becomes an
\* Extension over that child, one left with its value alone a Leaf; an
\* Extension over an Extension or a Leaf merges the two paths
RECURSIVE Fix(_)
Fix(n) ==
    CASE n.type = "Branch" ->
            LET used == {i \in Nibbles : n.children[i] # EmptyNode} IN
            IF used = {} /\ n.value = << >> THEN EmptyNode
            ELSE IF used = {} THEN Leaf(<< >>, n.value)
            ELSE IF Cardinality(used) = 1 /\ n.value = << >>
            THEN LET i == CHOOSE x \in used : TRUE
                 IN Fix(Extension(<<i>>, n.children[i]))
            ELSE n
      [] n.type = "Extension" ->
            CASE n.child.type = "Extension" ->
                    Fix(Extension(n.path \o n.child.path, n.child.child))
              [] n.child.type = "Leaf" -> Leaf(n.path \o n.child.path, n.child.value)
              [] n.child.type = "Empty" -> EmptyNode
              [] OTHER -> n
      [] OTHER -> n

\* the remove walk without the collapse pass
RECURSIVE RemoveAt_NoFix(_, _)
RemoveAt_NoFix(n, key) ==
    CASE n.type = "Empty" -> [node |-> n, old |-> None]
      [] n.type = "Leaf" ->
            IF n.path = key THEN [node |-> EmptyNode, old |-> Some(n.value)]
            ELSE [node |-> n, old |-> None]
      [] n.type = "Extension" ->
            IF ~StartsWith(key, n.path) THEN [node |-> n, old |-> None]
            ELSE LET r == RemoveAt_NoFix(n.child, Mid(key, Len(n.path)))
                 IN IF r.old = None THEN [node |-> n, old |-> None]
                    ELSE [node |-> Extension(n.path, r.node), old |-> r.old]
      [] OTHER ->
            IF key = << >>
            THEN IF n.value = << >> THEN [node |-> n, old |-> None]
                 ELSE [node |-> Branch(n.children, << >>), old |-> Some(n.value)]
            ELSE LET r == RemoveAt_NoFix(n.children[key[1]], Tail(key))
                 IN IF r.old = None THEN [node |-> n, old |-> None]
                    ELSE [node |-> Branch([n.children EXCEPT ![key[1]] = r.node],
                                           n.value),
                          old |-> r.old]

\* remove: the rewritten node, collapsed on the way back up, and the value held
\* before
RECURSIVE RemoveAt(_, _)
RemoveAt(n, key) ==
    CASE n.type = "Empty" -> [node |-> n, old |-> None]
      [] n.type = "Leaf" ->
            IF n.path = key THEN [node |-> EmptyNode, old |-> Some(n.value)]
            ELSE [node |-> n, old |-> None]
      [] n.type = "Extension" ->
            IF ~StartsWith(key, n.path) THEN [node |-> n, old |-> None]
            ELSE LET r == RemoveAt(n.child, Mid(key, Len(n.path)))
                 IN IF r.old = None THEN [node |-> n, old |-> None]
                    ELSE [node |-> Fix(Extension(n.path, r.node)), old |-> r.old]
      [] OTHER ->
            IF key = << >>
            THEN IF n.value = << >> THEN [node |-> n, old |-> None]
                 ELSE [node |-> Fix(Branch(n.children, << >>)), old |-> Some(n.value)]
            ELSE LET r == RemoveAt(n.children[key[1]], Tail(key))
                 IN IF r.old = None THEN [node |-> n, old |-> None]
                    ELSE [node |-> Fix(Branch([n.children EXCEPT ![key[1]] = r.node],
                                               n.value)),
                          old |-> r.old]

\* the root digest: the empty-trie digest for the empty trie, otherwise the
\* digest of the root node's serialization
RootOf(n) == IF n = EmptyNode THEN BLAKE2B_NULL_RLP ELSE {n}

\* p before q in the order of keys: nibble by nibble, a prefix first
Less(p, q) ==
    LET d == CommonPrefix(p, q) IN
    IF d = Len(p) THEN Len(q) > d
    ELSE IF d = Len(q) THEN FALSE
    ELSE p[d + 1] < q[d + 1]

\* the depth-first walk of the iterator below node n, reached by the nibbles
\* `prefix`: a Branch yields its own value, then its slots in index order
RECURSIVE Walk(_, _)
RECURSIVE WalkSlots(_, _, _)
Walk(n, prefix) ==
    CASE n.type = "Empty" -> << >>
      [] n.type = "Leaf" -> <<<<BytesOf(prefix \o n.path), n.value>>>>
      [] n.type = "Extension" -> Walk(n.child, prefix \o n.path)
      [] OTHER ->
            (IF n.value = << >> THEN << >> ELSE <<<<BytesOf(prefix), n.value>>>>)
                \o WalkSlots(n, prefix, 0)
\* the slots from index i on
WalkSlots(n, prefix, i) ==
    IF i \notin Nibbles THEN << >>
    ELSE Walk(n.children[i], prefix \o <<i>>) \o WalkSlots(n, prefix, i + 1)

\* what the iterator still yields after seek(key), `rest` being the nibbles of
\* key not yet matched when the descent reaches n: the descent follows the key
\* as get does and keeps the frames to its right
RECURSIVE SeekAt(_, _, _)
SeekAt(n, prefix, rest) ==
    CASE n.type = "Empty" -> << >>
      [] n.type = "Leaf" ->
            IF Less(rest, n.path) THEN Walk(n, prefix) ELSE << >>
      [] n.type = "Extension" ->
            IF StartsWith(rest, n.path)
            THEN SeekAt(n.child, prefix \o n.path, Mid(rest, Len(n.path)))
            ELSE IF Less(rest, n.path) THEN Walk(n, prefix)
            ELSE << >>
      [] OTHER ->
            IF rest = << >> THEN WalkSlots(n, prefix, 0)
            ELSE SeekAt(n.children[rest[1]], prefix \o <<rest[1]>>, Tail(rest))
                    \o WalkSlots(n, prefix, rest[1] + 1)

\* the account state and the utilities, which a trie used on its own leaves
\* alone
avars == <<variant, live, acct, caches, db, res, hung, steps, limit, uvars,
          hvars>>

\* insert storing a zero-length value like any other
Insert_StoreEmpty(n, key, value) == InsertAt(n, NibblesOf(key), value)

\* TrieMut::insert: an empty value is a removal
Insert(n, key, value) ==
    IF value = << >> THEN RemoveAt(n, NibblesOf(key))
    ELSE InsertAt(n, NibblesOf(key), value)

\* remove leaving the emptied nodes in place
Remove_NoCollapse(n, key) == RemoveAt_NoFix(n, NibblesOf(key))

\* TrieMut::remove
Remove(n, key) == RemoveAt(n, NibblesOf(key))

Get(n, key) == Lookup(n, NibblesOf(key))

\* contains answering for the trie, not for the key
Contains_AnyKey(n, key) == n # EmptyNode

\* TrieMut::contains: self.get(key).map(|x| x.is_some())
Contains(n, key) == Get(n, key).kind = "some"

\* is_empty with the comparison the wrong way round
IsEmptyTrie_Negated(n) == RootOf(n) # BLAKE2B_NULL_RLP

\* Trie::is_empty: *self.root() == BLAKE2B_NULL_RLP
IsEmptyTrie(n) == RootOf(n) = BLAKE2B_NULL_RLP

\* the iterator after seek(key) moving to the first key not below key
Seek_Inclusive(n, key) ==
    LET got == Get(n, key)
    IN (IF got.kind = "some" THEN <<<<key, got.val>>>> ELSE << >>)
          \o SeekAt(n, << >>, NibblesOf(key))

\* TrieIterator::seek, then the items the iterator yields
Seek(n, key) == SeekAt(n, << >>, NibblesOf(key))

\* Trie::iter, run to its end
Iter(n) == Walk(n, << >>)

\* TrieDBMut::new(db, root): a writer over the empty trie
TrieDBMut_new ==
    /\ node' = EmptyNode
    /\ tres' = TrieResult("new", << >>, << >>, "ok", RootOf(EmptyNode))
    /\ UNCHANGED <<avars, factory, troot, opened>>

insert(key, value) ==
    /\ LET r == Insert(node, key, value)
       IN /\ node' = r.node
          /\ tres' = TrieResult("insert", key, value, "ok", r.old)
    /\ UNCHANGED <<avars, factory, troot, opened>>

remove(key) ==
    /\ LET r == Remove(node, key)
       IN /\ node' = r.node
          /\ tres' = TrieResult("remove", key, << >>, "ok", r.old)
    /\ UNCHANGED <<avars, factory, troot, opened>>

get(key) ==
    /\ tres' = TrieResult("get", key, << >>, "ok", Get(node, key))
    /\ UNCHANGED <<avars, factory, troot, opened, node>>

contains(key) ==
    /\ tres' = TrieResult("contains", key, << >>, "ok", Contains(node, key))
    /\ UNCHANGED <<avars, factory, troot, opened, node>>

trie_is_empty ==
    /\ tres' = TrieResult("is_empty", << >>, << >>, "ok", IsEmptyTrie(node))
    /\ UNCHANGED <<avars, factory, troot, opened, node>>

\* TrieMut::root: the digest of the trie as it stands
trie_root ==
    /\ tres' = TrieResult("root", << >>, << >>, "ok", RootOf(node))
    /\ UNCHANGED <<avars, factory, troot, opened, node>>

iter ==
    /\ tres' = TrieResult("iter", << >>, << >>, "ok", Iter(node))
    /\ UNCHANGED <<avars, factory, troot, opened, node>>

\* the keys sought: the keys stored, and keys below, between and above them
SeekKeys == TrieKeys \cup {<< >>, <<0, 2>>, <<17>>}

seek(key) ==
    /\ tres' = TrieResult("seek", key, << >>, "ok", Seek(node, key))
    /\ UNCHANGED <<avars, factory, troot, opened, node>>

\* no account: the state of the account layer while a trie is used on its own
NoAccounts ==
    /\ variant = "AVM"
    /\ live = {}
    /\ acct = [h \in Handles |-> FreeAcct]
    /\ caches = [c \in CacheIds |-> EmptyMap]
    /\ db = EmptyStore
    /\ res = Result("-", 0, "-", 0, "-", << >>)
    /\ hung = FALSE
    /\ steps = 0
    /\ OwnCells({})

InitTrie == NoAccounts /\ limit = 0 /\ TrieIdle /\ UtilIdle

NextTrie ==
    \/ TrieDBMut_new
    \/ \E key \in TrieKeys, value \in TrieValues \cup {<< >>} : insert(key, value)
    \/ \E key \in TrieKeys : remove(key)
    \/ \E key \in TrieKeys : get(key)
    \/ \E key \in TrieKeys : contains(key)
    \/ trie_is_empty
    \/ trie_root
    \/ iter
    \/ \E key \in SeekKeys : seek(key)

SpecTrie == InitTrie /\ [][NextTrie]_vars

(***************************************************************************)
(* TrieFactory: new, readonly, create, from_existing, is_fat, and the      *)
(* handle it returns.                                                      *)
(***************************************************************************)
\* number of factory and handle operations in a run
MaxStepsFactory == 6

\* what the factory operations leave alone
fixed == <<variant, live, acct, caches, res, hung, limit, node, uvars, hvars>>

FactoryReady == steps < limit
FactoryTick == steps' = steps + 1

\* the values written through a handle
HandleValues == {<<7>>, <<8, 9>>}

\* TrieFactory::new(spec)
TrieFactory_new(spec) ==
    /\ FactoryReady /\ FactoryTick
    /\ factory' = spec
    /\ tres' = TrieResult("new", << >>, << >>, "ok", spec)
    /\ UNCHANGED <<fixed, db, troot, opened>>

\* an opener that takes any root for a trie of the store
Open_Unchecked(spec, store, r, open) ==
    [kind |-> "ok", handle |-> [open |-> open, flavor |-> spec, held |-> r]]

\* TrieDB::new / SecTrieDB::new / FatDB::new and the from_existing of the three
\* writers, as the match on self.spec selects them: the root must be in the store
Open(spec, store, r, open) ==
    IF ~HasRoot(store, r) THEN [kind |-> "InvalidStateRoot", handle |-> NoHandle]
    ELSE [kind |-> "ok", handle |-> [open |-> open, flavor |-> spec, held |-> r]]

\* readonly(db, root), db being the backing store or a store that lacks the root
readonly(view) ==
    /\ FactoryReady /\ FactoryTick /\ opened = NoHandle
    /\ view = "none" => ~HasRoot(View(db, view), troot)
    /\ LET r == Open(factory, View(db, view), troot, "reader")
       IN /\ opened' = r.handle
          /\ tres' = TrieResult("readonly", << >>, view, r.kind, troot)
    /\ UNCHANGED <<fixed, db, troot, factory>>

\* from_existing(db, root)
from_existing(view) ==
    /\ FactoryReady /\ FactoryTick /\ opened = NoHandle
    /\ view = "none" => ~HasRoot(View(db, view), troot)
    /\ LET r == Open(factory, View(db, view), troot, "writer")
       IN /\ opened' = r.handle
          /\ tres' = TrieResult("from_existing", << >>, view, r.kind, troot)
    /\ UNCHANGED <<fixed, db, troot, factory>>

\* create continuing the trie the root names
Create_KeepRoot(spec, r) == [open |-> "writer", flavor |-> spec, held |-> r]

\* TrieDBMut::new / SecTrieDBMut::new / FatDBMut::new: an empty trie
Create(spec, r) == [open |-> "writer", flavor |-> spec, held |-> BLAKE2B_NULL_RLP]

\* create(db, root): root is set to the root of the trie made
create ==
    /\ FactoryReady /\ FactoryTick /\ opened = NoHandle
    /\ opened' = Create(factory, troot)
    /\ troot' = Create(factory, troot).held
    /\ tres' = TrieResult("create", << >>, << >>, "ok", troot)
    /\ UNCHANGED <<fixed, db, factory>>

\* is_fat answering for every hashing trie
IsFat_Hashed(spec) == spec # "Generic"

\* is_fat(): self.spec == TrieSpec::Fat
IsFat(spec) == spec = "Fat"

is_fat ==
    /\ FactoryReady /\ FactoryTick
    /\ tres' = TrieResult("is_fat", << >>, << >>, "ok", IsFat(factory))
    /\ UNCHANGED <<fixed, db, troot, opened, factory>>

\* insert through the writer the factory returned
handle_insert(k, value) ==
    /\ FactoryReady /\ FactoryTick /\ opened.open = "writer"
    /\ opened' = [opened EXCEPT !.held = TrieInsert(@, TrieKey(opened.flavor, k), value)]
    /\ tres' = TrieResult("insert", k, value, "ok", << >>)
    /\ UNCHANGED <<fixed, db, troot, factory>>

\* get through the handle the factory returned
handle_get(k) ==
    /\ FactoryReady /\ FactoryTick /\ opened.open # "none"
    /\ tres' = TrieResult("get", k, << >>, "ok",
                          LET tk == TrieKey(opened.flavor, k)
                          IN IF TrieHas(opened.held, tk)
                             THEN Some(TrieEntry(opened.held, tk)[2]) ELSE None)
    /\ UNCHANGED <<fixed, db, troot, opened, factory>>

\* the handle goes out of scope: a writer commits its nodes and sets root
handle_drop ==
    /\ FactoryReady /\ FactoryTick /\ opened.open # "none"
    /\ opened' = NoHandle
    /\ IF opened.open = "writer"
       THEN /\ opened.held \notin db.roots \cup {BLAKE2B_NULL_RLP}
                  => Cardinality(db.roots) < MaxRoots
            /\ db' = TrieCommit(db, opened.flavor, opened.held,
                                {k \in Keys : TrieHas(opened.held, TrieKey("Fat", k))})
            /\ troot' = opened.held
       ELSE UNCHANGED <<db, troot>>
    /\ tres' = TrieResult("drop", << >>, << >>, "ok", << >>)
    /\ UNCHANGED <<fixed, factory>>

InitFactory == NoAccounts /\ limit = MaxStepsFactory /\ TrieIdle /\ UtilIdle

NextFactory ==
    \/ \E spec \in Flavors : TrieFactory_new(spec)
    \/ \E view \in {"full", "none"} : readonly(view)
    \/ \E view \in {"full", "none"} : from_existing(view)
    \/ create
    \/ is_fat
    \/ \E k \in Keys, value \in HandleValues : handle_insert(k, value)
    \/ \E k \in Keys : handle_get(k)
    \/ handle_drop

SpecFactory == InitFactory /\ [][NextFactory]_vars

(***************************************************************************)
(* The AVM ABI encoder (avm_abi/src/abi_bytes.rs, avm_abi/src/abi_token.rs).*)
(* An integer is the mathematical value; a register holds it as its bytes  *)
(* by significance, least significant first, in two's complement.  The     *)
(* byte order of the build target decides the memory image of a register.  *)
(***************************************************************************)
\* longest array and longest string handed to encode
MaxArray == 2
MaxString == 2

Targets == {"little", "big"}
IntTypes == {"u16", "i16", "u32", "i32", "u64", "i64"}
\* the $len of each instantiation of format_as_bytes!
LenOf(t) == CASE t \in {"u16", "i16"} -> 2
              [] t \in {"u32", "i32"} -> 4
              [] t \in {"u64", "i64"} -> 8
\* the $endian of each instantiation of format_as_bytes!
EndianOf(t) == 0

\* the values of each type the model draws from, its extremes among them
\* (of the 32- and 64-bit types, those a 32-bit model integer can hold)
ValuesOfType(t) ==
    CASE t = "u16" -> {0, 16, 255, 256, 32767, 32768, 65535}
      [] t = "i16" -> {-32768, -256, -1, 0, 16, 32767}
      [] t = "u32" -> {0, 16, 65536, 2147483647}
      [] t = "i32" -> {-2147483647 - 1, -65536, -1, 0, 16, 2147483647}
      [] t = "u64" -> {0, 16, 65536, 2147483647}
      [] t = "i64" -> {-2147483647 - 1, -1, 0, 16, 2147483647}

RECURSIVE Shr8(_, _)
\* v >> (8 * n), arithmetic
Shr8(v, n) == IF n = 0 THEN v ELSE Shr8(v \div 256, n - 1)

\* the register holding v in a type of len bytes
Register(v, len) == [i \in 1..len |-> Shr8(v, i - 1) % 256]

Reverse(s) == [i \in 1..Len(s) |-> s[Len(s) + 1 - i]]

\* {integer}::to_be and to_le: swap_bytes unless the target already has the order
to_be(reg, target) == IF target = "little" THEN Reverse(reg) ELSE reg
to_le(reg, target) == IF target = "big" THEN Reverse(reg) ELSE reg

\* mem::transmute of an integer to [u8; len]: its memory image, lowest address
\* first
transmute(reg, target) == IF target = "little" THEN reg ELSE Reverse(reg)

\* the body of to_bytes the macro format_as_bytes! generates
FormatAsBytes(v, endian, len, target) ==
    CASE endian = 0 -> transmute(to_be(Register(v, len), target), target)
      [] endian = 1 -> transmute(to_le(Register(v, len), target), target)
      [] OTHER -> [i \in 1..len |-> 0]

\* to_bytes of an instantiation with $endian 1
ToBytes_ToLe(t, v, target) == FormatAsBytes(v, 1, LenOf(t), target)

\* <t as ToBytes>::to_bytes
ToBytes(t, v, target) == FormatAsBytes(v, EndianOf(t), LenOf(t), target)

\* to_bytes of a value of an integer type
to_bytes(t, v, target) ==
    /\ abi' = [op |-> "to_bytes", type |-> t, v |-> v, target |-> target,
               kind |-> "ok", out |-> ToBytes(t, v, target)]
    /\ UNCHANGED <<variant, live, acct, caches, db, res, hung, steps, limit,
                   tvars, cmd, hvars>>

\* the tokens handed to encode
Bytes8 == {0, 1, 255}
Ints8 == {-128, -1, 0, 127}
Bools == {TRUE, FALSE}
SeqsUpTo(S, n) == UNION {[1..m -> S] : m \in 0..n}
\* the string of tests::encode
Hello == <<104, 101, 108, 108, 111>>
Strings == SeqsUpTo({104, 195}, MaxString) \cup {Hello}
ScalarTags == {"UCHAR", "BOOL", "INT8", "INT16", "INT32", "INT64", "FLOAT",
               "DOUBLE"}
AllArrayTags == {"AUCHAR", "ABOOL", "AINT8", "AINT16", "AINT32", "AINT64",
                 "AFLOAT", "ADOUBLE"}
TokenTags == ScalarTags \cup AllArrayTags \cup {"STRING"}
\* the elements of each kind of token
ElementsOf(tag) ==
    CASE tag \in {"UCHAR", "AUCHAR"} -> Bytes8
      [] tag \in {"BOOL", "ABOOL"} -> Bools
      [] tag \in {"INT8", "AINT8"} -> Ints8
      [] tag \in {"INT16", "AINT16"} -> {-256, 16}
      [] tag \in {"INT32", "AINT32"} -> {-65536, 16}
      [] tag \in {"INT64", "AINT64"} -> {-1, 16}
      [] tag \in {"FLOAT", "AFLOAT"} -> {"f32"}
      [] tag \in {"DOUBLE", "ADOUBLE"} -> {"f64"}
\* the payloads of each kind of token
PayloadsOf(tag) ==
    CASE tag \in ScalarTags -> ElementsOf(tag)
      [] tag \in AllArrayTags -> SeqsUpTo(ElementsOf(tag), MaxArray)
      [] tag = "STRING" -> Strings
\* a token is its variant and its payload
Token(tag, v) == <<tag, v>>
Tag(token) == token[1]
Payload(token) == token[2]

ArrayTags == {"AUCHAR", "ABOOL", "AINT8", "AINT16", "AINT32", "AINT64"}
\* the tag byte each arm of encode pushes first
TagOf(tag) ==
    CASE tag = "UCHAR" -> 1 [] tag = "BOOL" -> 2 [] tag = "INT8" -> 3
      [] tag = "INT16" -> 4 [] tag = "INT32" -> 5 [] tag = "INT64" -> 6
      [] tag = "FLOAT" -> 7 [] tag = "DOUBLE" -> 8
      [] tag = "AUCHAR" -> 17 [] tag = "ABOOL" -> 18 [] tag = "AINT8" -> 19
      [] tag = "AINT16" -> 20 [] tag = "AINT32" -> 21 [] tag = "AINT64" -> 22
      [] tag = "AFLOAT" -> 23 [] tag = "ADOUBLE" -> 24
      [] tag = "STRING" -> 33

RECURSIVE Flatten(_)
Flatten(ss) == IF ss = << >> THEN << >> ELSE Head(ss) \o Flatten(Tail(ss))

\* what the closure of an array arm pushes for one element
ElementPush(tag, x, target) ==
    CASE tag = "AUCHAR" -> <<x>>
      [] tag = "ABOOL" -> IF x THEN <<1>> ELSE <<2>>
      [] tag = "AINT8" -> <<x % 256>>
      [] tag = "AINT16" -> ToBytes("i16", x, target)
      [] tag = "AINT32" -> ToBytes("i32", x, target)
      [] tag = "AINT64" -> ToBytes("i64", x, target)

\* the pushes of `v.iter().map(closure)`: Iterator::map is lazy, its closure
\* runs for the elements a consumer pulls
MapPushes(tag, v, target, pulled) ==
    Flatten([i \in 1..pulled |-> ElementPush(tag, v[i], target)])

\* the number of elements pulled from the adaptor by the statement
\* `v.iter().map(..);`, which drops it unconsumed
Pulled(v) == 0

\* the STRING arm without the length
EncodeString_NoLength(s, target) == <<TagOf("STRING")>> \o s

\* the STRING arm: the tag, v.len() as i32 through to_bytes, the bytes of v
EncodeString(s, target) ==
    <<TagOf("STRING")>> \o ToBytes("i32", Len(s), target) \o s

Done(out) == [kind |-> "ok", out |-> out]
\* panic!() after the tag was pushed: the vector is lost with the call
Panic == [kind |-> "panic", out |-> << >>]

\* AbiToken::encode, arm by arm
Encode(token, target) ==
    LET tag == Tag(token)
        v == Payload(token)
    IN  CASE tag = "UCHAR" -> Done(<<TagOf(tag), v>>)
          [] tag = "BOOL" -> Done(<<TagOf(tag), IF v THEN 1 ELSE 0>>)
          [] tag = "INT8" -> Done(<<TagOf(tag), v % 256>>)
          [] tag = "INT16" -> Done(<<TagOf(tag)>> \o ToBytes("i16", v, target))
          [] tag = "INT32" -> Done(<<TagOf(tag)>> \o ToBytes("i32", v, target))
          [] tag = "INT64" -> Done(<<TagOf(tag)>> \o ToBytes("i64", v, target))
          [] tag \in {"FLOAT", "DOUBLE", "AFLOAT", "ADOUBLE"} -> Panic
          [] tag \in ArrayTags ->
                Done(<<TagOf(tag)>> \o MapPushes(tag, v, target, Pulled(v)))
          [] tag = "STRING" -> Done(EncodeString(v, target))

\* encode of a token
encode(token, target) ==
    /\ abi' = [op |-> "encode", token |-> token, target |-> target,
               kind |-> Encode(token, target).kind,
               out |-> Encode(token, target).out]
    /\ UNCHANGED <<variant, live, acct, caches, db, res, hung, steps, limit,
                   tvars, cmd, hvars>>

InitAbi == NoAccounts /\ limit = 0 /\ TrieIdle /\ UtilIdle

NextAbi ==
    \/ \E t \in IntTypes, target \in Targets :
          \E v \in ValuesOfType(t) : to_bytes(t, v, target)
    \/ \E tag \in TokenTags, target \in Targets :
          \E v \in PayloadsOf(tag) : encode(Token(tag, v), target)

SpecAbi == InitAbi /\ [][NextAbi]_vars

(***************************************************************************)
(* The terminal's command parser (terminal/src/parser.rs).  A line and an  *)
(* application name are sequences of characters.                           *)
(***************************************************************************)
\* longest input line and longest application name
MaxLine == 3
MaxName == 2

Chars == {"a", "v", " "}
Lines == UNION {[1..m -> Chars] : m \in 0..MaxLine}
AppNames == UNION {[1..m -> Chars \ {" "}] : m \in 0..MaxName}

RECURSIVE Split(_)
\* str::split(' ') collected: the pieces between the spaces, empty ones too, so
\* at least one piece
Split(input) ==
    IF \E i \in 1..Len(input) : input[i] = " "
    THEN LET i == CHOOSE i \in 1..Len(input) :
                     /\ input[i] = " "
                     /\ \A j \in 1..(i - 1) : input[j] # " "
         IN  <<SubSeq(input, 1, i - 1)>>
                 \o Split(SubSeq(input, i + 1, Len(input)))
    ELSE <<input>>

\* AppOptions::new(app_name)
AppOptions_new(app_name) == [name |-> app_name, args |-> << >>]

\* AppOptions::match_app: the first arm of `match self.name` is the identifier
\* pattern `name`, which binds whatever self.name is and so matches always;
\* the parameter `name` is not compared and the `_` arm is never taken
match_app(opts, name) ==
    LET bound == opts.name
    IN  IF bound = opts.name THEN Some(opts.args) ELSE None

\* parse(input, opts)
Parse(input, opts) ==
    LET cmds == Split(input)
    IN  IF match_app(opts, cmds[1]) # None THEN "Ok" ELSE "WrongCmdName"

parse(input, app_name) ==
    /\ cmd' = [op |-> "parse", input |-> input, name |-> app_name,
               result |-> Parse(input, AppOptions_new(app_name))]
    /\ UNCHANGED <<variant, live, acct, caches, db, res, hung, steps, limit,
                   tvars, abi, hvars>>

InitParser == NoAccounts /\ limit = 0 /\ TrieIdle /\ UtilIdle

NextParser == \E input \in Lines, app_name \in AppNames : parse(input, app_name)

SpecParser == InitParser /\ [][NextParser]_vars

(***************************************************************************)
(* Properties of account storage.                                          *)
(***************************************************************************)
\* what the Secure sub-trie `root` holds for k, read as a value of `shape`:
\* the decoded entry under the digest of k, the zero value when there is none
SecureValue(root, shape, k) ==
    IF \E e \in root : e[1] = Blake2b(k)
    THEN DecodeOf(shape, (CHOOSE e \in root : e[1] = Blake2b(k))[2])
    ELSE ZeroOf(shape)

\* the keys with a pending change, in either map
PendingKeys(A) == DOMAIN A.storage_changes \cup DOMAIN A.storage_changes_dword

\* the bytes a commit leaves under k (none when the value is zero); a key
\* pending in both maps of the FVM account takes the wide value, drained last
FinalEncoded(A, k) ==
    IF k \in DOMAIN A.storage_changes_dword
    THEN IF IsZero(A.storage_changes_dword[k]) THEN << >>
         ELSE EncodeOf("wide", A.storage_changes_dword[k])
    ELSE IF IsZero(A.storage_changes[k]) THEN << >>
         ELSE EncodeOf(IF variant = "FVM" THEN "narrow" ELSE "bytes",
                       A.storage_changes[k])

\* the sub-trie of A with the zero-valued pending keys removed and the others
\* inserted encoded
ExpectedRoot(A, flavor) ==
    {e \in A.storage_root : \A k \in PendingKeys(A) : e[1] # TrieKey(flavor, k)}
        \cup {<<TrieKey(flavor, k), FinalEncoded(A, k)>> :
                 k \in {x \in PendingKeys(A) : FinalEncoded(A, x) # << >>}}

\* C1: storage_at(store, k) returns the pending value of k when there is one,
\* otherwise the cached value when there is one, otherwise, when it returns a
\* value at all, the value decoded from the Secure sub-trie at storage_root
\* (the zero value when k is absent), which it inserts into the read cache; it
\* leaves the pending changes, the account and the store as they were, and on a
\* store that holds the sub-trie it returns whenever the entry decodes.
C1_StorageAtOrder ==
    [][res'.op = "storage_at" =>
        LET a == res'.h
            shape == res'.shape
            k == res'.key
            pending == ChangesOf(acct[a], shape)
            cell == CacheOf(acct[a], shape)
            held == SecureValue(acct[a].storage_root, shape, k)
        IN /\ acct' = acct
           /\ db' = db
           /\ IF k \in DOMAIN pending
              THEN res'.kind = "ok" /\ res'.val = pending[k] /\ caches' = caches
              ELSE IF k \in DOMAIN caches[cell]
              THEN res'.kind = "ok" /\ res'.val = caches[cell][k] /\ caches' = caches
              ELSE /\ res'.kind = "ok" =>
                         /\ res'.val = held
                         /\ caches' = [caches EXCEPT ![cell] = Put(@, k, held)]
                   /\ res'.kind # "ok" => caches' = caches
                   /\ (res'.view = "full" /\ held # Abort) => res'.kind = "ok"
    ]_vars

\* a second handle with a cache of its own has read a non-zero value that the
\* first handle committed
C1_Witness ==
    /\ live = {1, 2}
    /\ res.op = "storage_at" /\ res.h = 2 /\ res.kind = "ok" /\ ~IsZero(res.val)
    /\ storage_is_clean(acct[1]) /\ storage_is_clean(acct[2])
    /\ CacheOf(acct[1], res.shape) # CacheOf(acct[2], res.shape)
    /\ res.key \in DOMAIN caches[CacheOf(acct[1], res.shape)]
    /\ res.key \in DOMAIN caches[CacheOf(acct[2], res.shape)]
    /\ caches[CacheOf(acct[2], res.shape)][res.key] = res.val
    /\ acct[2].storage_root # BLAKE2B_NULL_RLP

C4_RoundTrip ==
    [][(/\ res'.op = "commit_storage" /\ res'.kind = "ok"
        /\ res'.flavor = "Secure"
        /\ acct[res'.h].storage_root = BLAKE2B_NULL_RLP) =>
        LET A == acct[res'.h]
            record == DecodeBasic(Rlp(acct'[res'.h]))
        IN \A shape \in ShapesOf(variant), k \in Keys :
              LET r == StorageAt(EmptyMap, EmptyMap, record.storage_root, db',
                                 shape, k)
              IN IF k \notin PendingKeys(A)
                 THEN r.kind = "ok" /\ r.val = ZeroOf(shape)
                 ELSE (k \in DOMAIN ChangesOf(A, shape)
                          /\ ~IsZero(ChangesOf(A, shape)[k]))
                         => r.kind = "ok" /\ r.val = ChangesOf(A, shape)[k]
    ]_vars

\* C5: for every handle and every key without a pending change, storage_at on
\* the store that holds the sub-trie returns the value the sub-trie at
\* storage_root holds for the key (the zero value when absent), whatever the
\* read cache contains.
C5_CacheNotAuthoritative ==
    \A a \in live : \A shape \in ShapesOf(variant) : \A k \in Keys :
       LET A == acct[a]
           r == StorageAt(ChangesOf(A, shape), caches[CacheOf(A, shape)],
                          A.storage_root, db, shape, k)
           held == SecureValue(A.storage_root, shape, k)
       IN (k \notin DOMAIN ChangesOf(A, shape) /\ held # Abort)
             => r.kind = "ok" /\ r.val = held

\* the result and the cache storage_at would leave for key k of `shape` on
\* handle a, in the state given by the accounts ac, the caches cs and a store
ReadOf(ac, cs, store, a, shape, k) ==
    StorageAt(ChangesOf(ac[a], shape), cs[CacheOf(ac[a], shape)],
              ac[a].storage_root, store, shape, k)

\* C6 as stated: commit_storage with no pending change succeeds, and leaves
\* storage_root, the store and the result of every storage_at unchanged.
C6_CleanCommitSucceeds ==
    [][(res'.op = "commit_storage" /\ storage_is_clean(acct[res'.h])) =>
        /\ res'.kind = "ok"
        /\ acct'[res'.h].storage_root = acct[res'.h].storage_root
        /\ db' = db
        /\ \A view \in Views, shape \in ShapesOf(variant), k \in Keys :
              ReadOf(acct', caches', View(db', view), res'.h, shape, k)
                 = ReadOf(acct, caches, View(db, view), res'.h, shape, k)
    ]_vars

\* C6, amended: commit_storage with no pending change succeeds when the store
\* holds the sub-trie at storage_root and fails with InvalidStateRoot when it
\* does not; either way it leaves storage_root, the account, the store, the
\* caches and the result of every storage_at unchanged.
C6_CleanCommitIdempotent ==
    [][(res'.op = "commit_storage" /\ storage_is_clean(acct[res'.h])) =>
        LET root == acct[res'.h].storage_root
            held == root = BLAKE2B_NULL_RLP
                       \/ (res'.view = "full" /\ root \in db.roots)
        IN /\ res'.kind = IF held THEN "ok" ELSE "InvalidStateRoot"
           /\ acct' = acct
           /\ caches' = caches
           /\ db' = db
           /\ \A view \in Views, shape \in ShapesOf(variant), k \in Keys :
                 ReadOf(acct', caches', View(db', view), res'.h, shape, k)
                    = ReadOf(acct, caches, View(db, view), res'.h, shape, k)
    ]_vars

\* a handle with an empty cache of its own and a non-empty sub-trie has
\* committed with nothing pending
C6_Witness ==
    /\ res.op = "commit_storage" /\ res.kind = "ok" /\ res.h = 2
    /\ live = {1, 2}
    /\ acct[2].storage_root # BLAKE2B_NULL_RLP
    /\ acct[2].storage_cache # acct[1].storage_cache
    /\ caches[acct[2].storage_cache] = EmptyMap
    /\ variant = "FVM" => caches[acct[2].storage_cache_dword] = EmptyMap
    /\ storage_is_clean(acct[2])

\* no entry of the sub-trie holds an encoded zero value
ZeroFree(root) == \A e \in root : ~IsZero(RlpPayload(e[2]))

\* C7: commit_storage never stores an explicit zero: no sub-trie of a live
\* handle holds an encoded zero value; after a commit that succeeds no key whose
\* pending values were all zero is in the sub-trie; and a commit whose pending
\* values are all zero leaves the root of the previous sub-trie with those keys
\* removed, which for a fresh account is the empty-trie digest.
C7_ZeroElision ==
    [][/\ \A a \in live' : ZeroFree(acct'[a].storage_root)
       /\ (res'.op = "commit_storage" /\ res'.kind = "ok") =>
             LET A == acct[res'.h]
                 root == acct'[res'.h].storage_root
                 zeroed == {k \in PendingKeys(A) :
                              \A shape \in ShapesOf(variant) :
                                 k \in DOMAIN ChangesOf(A, shape)
                                    => IsZero(ChangesOf(A, shape)[k])}
             IN /\ \A k \in zeroed : ~TrieHas(root, TrieKey(res'.flavor, k))
                /\ zeroed = PendingKeys(A) =>
                      /\ root = {e \in A.storage_root :
                                    \A k \in zeroed : e[1] # TrieKey(res'.flavor, k)}
                      /\ A.storage_root = BLAKE2B_NULL_RLP => root = BLAKE2B_NULL_RLP
    ]_vars

\* a key was set non-zero and committed, then set to zero and committed, and the
\* storage root is the empty-trie digest again
C7_Witness ==
    /\ res.op = "commit_storage" /\ res.kind = "ok" /\ steps = 4
    /\ live = {1}
    /\ acct[1].storage_root = BLAKE2B_NULL_RLP
    /\ db.roots # {}
    /\ \E shape \in ShapesOf(variant) : \E k \in Keys :
          /\ k \in DOMAIN caches[CacheOf(acct[1], shape)]
          /\ IsZero(caches[CacheOf(acct[1], shape)][k])

\* C8: only commit_storage and commit_code change the store: every step of
\* another account operation leaves it as it was.
C8_OnlyCommitsWrite ==
    [][db' # db => res'.op \in {"commit_storage", "commit_code"}]_vars

\* an account was overwritten with another while the store held a sub-trie
C8_Witness ==
    /\ res.op = "overwrite_with" /\ res.kind = "ok"
    /\ db.roots # {}

C10_IsEmpty ==
    res.op = "is_empty" =>
        LET A == acct[res.h]
            dirty == A.storage_changes # EmptyMap
                        \/ (variant = "FVM" /\ A.storage_changes_dword # EmptyMap)
            empty == /\ A.balance = 0
                     /\ A.nonce = 0
                     /\ A.code_hash = BLAKE2B_EMPTY
                     /\ A.storage_root = BLAKE2B_NULL_RLP
        IN res.kind = IF dirty THEN "abort" ELSE IF empty THEN "true" ELSE "false"

\* is_empty() was false on a clean account that differs from the empty one in
\* its storage root only
C10_Witness ==
    /\ res.op = "is_empty" /\ res.kind = "false"
    /\ acct[res.h].balance = 0 /\ acct[res.h].nonce = 0
    /\ acct[res.h].code_hash = BLAKE2B_EMPTY
    /\ acct[res.h].storage_root # BLAKE2B_NULL_RLP

(***************************************************************************)
(* Properties of balance, the serialized record and code.                  *)
(***************************************************************************)
\* C11: sub_balance(x) aborts when balance < x and changes nothing; when
\* balance >= x it sets balance to balance - x, which is never below zero, and
\* leaves nonce, storage, code, caches and the store unchanged; add_balance(x)
\* adds x, so that add_balance(x) followed by sub_balance(x) restores the
\* balance.
C11_SubBalance ==
    [][/\ res'.op = "sub_balance" =>
             LET a == res'.h
                 x == res'.key
             IN /\ caches' = caches /\ db' = db /\ live' = live
                /\ IF acct[a].balance < x
                   THEN res'.kind = "abort" /\ acct' = acct
                   ELSE /\ res'.kind = "ok"
                        /\ acct' = [acct EXCEPT ![a].balance = acct[a].balance - x]
                        /\ acct'[a].balance >= 0
       /\ res'.op = "add_balance" =>
             acct' = [acct EXCEPT ![res'.h].balance = acct[res'.h].balance + res'.key]
       /\ (res.op = "add_balance" /\ res'.op = "sub_balance"
              /\ res'.h = res.h /\ res'.key = res.key) =>
             /\ res'.kind = "ok"
             /\ acct'[res'.h].balance = acct[res'.h].balance - res.key
    ]_vars

\* add_balance(x) and then sub_balance(x) have brought the balance back to zero
C11_Witness ==
    /\ res.op = "sub_balance" /\ res.kind = "ok" /\ res.key > 0
    /\ steps = 2 /\ live = {1}
    /\ acct[1].balance = 0

\* C12: from_rlp of a well-formed record yields an account with the nonce,
\* balance, storage_root and code_hash of the account that was serialized, with
\* new and empty read caches, no pending storage change, an empty code_cache,
\* an unknown code_size and code_filth Clean; and its rlp() is the record again.
C12_FromRlp ==
    [][(res'.op = "from_rlp" /\ res'.kind = "ok") =>
        LET B == acct'[res'.h]
            bytes == res'.val
        IN /\ \E a \in live : bytes = Rlp(acct[a])
           /\ \A a \in live : bytes = Rlp(acct[a]) =>
                 /\ B.nonce = acct[a].nonce
                 /\ B.balance = acct[a].balance
                 /\ B.storage_root = acct[a].storage_root
                 /\ B.code_hash = acct[a].code_hash
           /\ res'.h \notin live /\ res'.h \in live'
           /\ B.storage_cache \notin UsedCaches(live, acct)
           /\ caches'[B.storage_cache] = EmptyMap
           /\ variant = "FVM" =>
                 /\ B.storage_cache_dword \notin UsedCaches(live, acct) \cup {B.storage_cache}
                 /\ caches'[B.storage_cache_dword] = EmptyMap
           /\ B.storage_changes = EmptyMap
           /\ B.storage_changes_dword = EmptyMap
           /\ B.code_cache = << >>
           /\ B.code_size = NoSize
           /\ B.code_filth = "Clean"
           /\ Rlp(B) = bytes
    ]_vars

\* an account with a nonce, a committed sub-trie and a filled cache was
\* serialized and rebuilt
C12_Witness ==
    /\ res.op = "from_rlp" /\ res.kind = "ok" /\ res.h = 2 /\ live = {1, 2}
    /\ acct[2].nonce = 1 /\ acct[2].balance = 0
    /\ acct[2].storage_root # BLAKE2B_NULL_RLP
    /\ caches[acct[1].storage_cache] # EmptyMap \/ caches[acct[1].storage_cache_dword] # EmptyMap
    /\ caches[acct[2].storage_cache] = EmptyMap

\* C13: from_rlp on malformed bytes fails by returning a decode error to the
\* caller: it does not abort, and it builds no account.
C13_MalformedPropagates ==
    (res.op = "from_rlp" /\ ~WellFormed(res.val)) =>
        res.kind = "DecoderError" /\ res.h \notin live

\* C14: commit_code on Dirty code with a non-empty code_cache leaves code_cache
\* in the store under code_hash (an entry the store already holds under that
\* digest stays) and marks Clean; on Dirty code with an empty code_cache it marks
\* Clean and writes nothing; on Clean code it changes neither the store nor the
\* account.  init_code and reset_code set code_hash to the digest of the bytes,
\* code_cache to the bytes and code_filth to Dirty.  A commit_code right after
\* a commit_code changes nothing.
C14_CommitCode ==
    [][/\ res'.op = "commit_code" =>
             LET A == acct[res'.h]
                 B == acct'[res'.h]
                 held == \E e \in db.code : e[1] = A.code_hash
             IN /\ caches' = caches /\ live' = live
                /\ \A h \in Handles \ {res'.h} : acct'[h] = acct[h]
                /\ IF A.code_filth = "Dirty" /\ A.code_cache # << >>
                   THEN /\ db' = IF held THEN db
                                 ELSE [db EXCEPT !.code =
                                          @ \cup {<<A.code_hash, A.code_cache>>}]
                        /\ B = [A EXCEPT !.code_filth = "Clean",
                                         !.code_size = Len(A.code_cache)]
                   ELSE IF A.code_filth = "Dirty"
                   THEN /\ db' = db
                        /\ B = [A EXCEPT !.code_filth = "Clean", !.code_size = 0]
                   ELSE db' = db /\ B = A
       /\ res'.op \in {"init_code", "reset_code"} =>
             LET B == acct'[res'.h]
             IN /\ B.code_hash = Blake2b(res'.val)
                /\ B.code_cache = res'.val
                /\ B.code_filth = "Dirty"
                /\ db' = db
       /\ (res.op = "commit_code" /\ res'.op = "commit_code" /\ res'.h = res.h) =>
             acct' = acct /\ db' = db
    ]_vars

\* code set by init_code was committed: the store holds it under code_hash and
\* the code is Clean
C14_Witness ==
    /\ res.op = "commit_code"
    /\ acct[res.h].code_cache # << >>
    /\ acct[res.h].code_hash = Blake2b(acct[res.h].code_cache)
    /\ acct[res.h].code_filth = "Clean"
    /\ <<acct[res.h].code_hash, acct[res.h].code_cache>> \in db.code

\* C15: init_code(b) and then commit_code, on a store that holds no other bytes
\* under the digest of b, leave a store and a record such that cache_code on a
\* handle rebuilt from the record returns exactly b; when b is empty the store
\* gets no entry and code_hash is the digest of the empty bytes.
C15_CodeRoundTrip ==
    [][(/\ res.op \in {"init_code", "reset_code"}
        /\ res'.op = "commit_code" /\ res'.h = res.h
        /\ \A e \in db.code : e[1] = Blake2b(res.val) => e[2] = res.val) =>
        LET b == res.val
            record == DecodeBasic(Rlp(acct'[res'.h]))
            handle == [FreeAcct EXCEPT !.balance = record.balance,
                                       !.nonce = record.nonce,
                                       !.storage_root = record.storage_root,
                                       !.code_hash = record.code_hash]
            r == CacheCode(handle, db')
        IN /\ r.kind = "some" /\ r.val = b
           /\ b = << >> => db' = db /\ record.code_hash = BLAKE2B_EMPTY
    ]_vars

\* non-empty code was set and committed through one handle and then returned
\* by cache_code, from the store, on a second handle
C15_Witness ==
    /\ res.op = "cache_code" /\ res.h = 2 /\ res.kind = "some" /\ res.view = "full"
    /\ steps = 4 /\ live = {1, 2}
    /\ res.val # << >>
    /\ acct[2].code_cache = res.val
    /\ acct[2].code_hash = Blake2b(res.val)
    /\ <<Blake2b(res.val), res.val>> \in db.code

\* C16: after commit_code returns, code_hash is the digest of code_cache.
C16_HashOfCache ==
    res.op = "commit_code" => acct[res.h].code_hash = Blake2b(acct[res.h].code_cache)

\* C17: cache_code returns None, and cache_code_size returns false, exactly
\* when the code named by code_hash is not already cached (its size not already
\* known), is not the empty code and is not in the store; a failure leaves
\* code_cache, code_size and code_hash unchanged, and after a success code_size
\* is the length of the code.
C17_CodeLookups ==
    [][res'.op \in {"cache_code", "cache_code_size"} =>
        LET A == acct[res'.h]
            B == acct'[res'.h]
            store == View(db, res'.view)
            known == IF res'.op = "cache_code" THEN A.code_cache # << >>
                     ELSE A.code_size # NoSize
            available == \/ known
                         \/ A.code_hash = BLAKE2B_EMPTY
                         \/ \E e \in store.code : e[1] = A.code_hash
            failed == res'.kind \in {"none", "false"}
            code == IF A.code_cache # << >> THEN A.code_cache
                    ELSE IF A.code_hash = BLAKE2B_EMPTY THEN << >>
                    ELSE (CHOOSE e \in store.code : e[1] = A.code_hash)[2]
        IN /\ res'.kind \in {"some", "none", "true", "false"}
           /\ failed <=> ~available
           /\ failed => B = A
           /\ ~failed => /\ B.code_hash = A.code_hash
                         /\ B.code_size # NoSize
                         /\ A.code_size = NoSize => B.code_size = Len(code)
    ]_vars

(***************************************************************************)
(* Properties of the snapshots and of overwrite_with.                      *)
(***************************************************************************)
\* C18: clone_dirty() returns an account with every pending storage change of
\* the original (both maps of the FVM account), its balance, nonce,
\* storage_root, code_hash and code, and new, empty read caches, so that
\* storage_at of a pending key returns the same value on both.
C18_CloneDirty ==
    [][res'.op = "clone_dirty" =>
        LET A == acct[res'.key]
            B == acct'[res'.h]
        IN /\ B.storage_changes = A.storage_changes
           /\ B.storage_changes_dword = A.storage_changes_dword
           /\ B.balance = A.balance /\ B.nonce = A.nonce
           /\ B.storage_root = A.storage_root
           /\ B.code_hash = A.code_hash /\ B.code_cache = A.code_cache
           /\ B.storage_cache \notin UsedCaches(live, acct)
           /\ caches'[B.storage_cache] = EmptyMap
           /\ \A shape \in ShapesOf(variant) :
                 \A k \in DOMAIN ChangesOf(A, shape) :
                    ReadOf(acct', caches', db', res'.h, shape, k).val
                       = ReadOf(acct', caches', db', res'.key, shape, k).val
    ]_vars

\* C19: clone_all() returns an account with the fields and the pending changes
\* of the original (both maps) that shares the read caches of the original: an
\* entry put into a cache through one handle, by storage_at or commit_storage,
\* is found through every handle that shares the cell; and a set_storage made
\* after the clone changes the pending maps of no other handle.
C19_CloneAll ==
    [][/\ res'.op = "clone_all" =>
             LET A == acct[res'.key]
                 B == acct'[res'.h]
             IN /\ B.storage_changes = A.storage_changes
                /\ B.storage_changes_dword = A.storage_changes_dword
                /\ B.balance = A.balance /\ B.nonce = A.nonce
                /\ B.storage_root = A.storage_root
                /\ B.code_hash = A.code_hash /\ B.code_cache = A.code_cache
                /\ B.storage_cache = A.storage_cache
                /\ B.storage_cache_dword = A.storage_cache_dword
                /\ caches' = caches
       /\ (res'.op = "storage_at" /\ res'.kind = "ok") =>
             \A b \in live' :
                CacheOf(acct'[b], res'.shape) = CacheOf(acct'[res'.h], res'.shape)
                   => cached_storage_at(EmptyMap,
                                        caches'[CacheOf(acct'[b], res'.shape)],
                                        res'.key).kind = "some"
                         \/ res'.key \in DOMAIN ChangesOf(acct[res'.h], res'.shape)
       /\ res'.op = "set_storage" =>
             \A b \in Handles \ {res'.h} : acct'[b] = acct[b]
    ]_vars

\* C20: an overwrite_with(other) that returns sets balance, nonce,
\* storage_root, code_hash, code_filth, code_cache, code_size and the pending
\* storage changes of the receiver to those of other, and merges the read
\* caches: afterwards each cache of the receiver maps every key cached in other
\* to other's value, every key cached only in the receiver to its previous
\* value, and no other key.
C20_OverwriteWith ==
    [][(res'.op = "overwrite_with" /\ res'.kind = "ok") =>
        LET A == acct[res'.h]
            other == acct[res'.key]
            B == acct'[res'.h]
        IN /\ B.balance = other.balance /\ B.nonce = other.nonce
           /\ B.storage_root = other.storage_root
           /\ B.code_hash = other.code_hash /\ B.code_filth = other.code_filth
           /\ B.code_cache = other.code_cache /\ B.code_size = other.code_size
           /\ B.storage_changes = other.storage_changes
           /\ B.storage_changes_dword = other.storage_changes_dword
           /\ \A shape \in ShapesOf(variant) :
                 LET mine == caches[CacheOf(A, shape)]
                     theirs == caches[CacheOf(other, shape)]
                     now == caches'[CacheOf(B, shape)]
                 IN /\ CacheOf(B, shape) = CacheOf(A, shape)
                    /\ DOMAIN now = DOMAIN mine \cup DOMAIN theirs
                    /\ \A k \in DOMAIN theirs : now[k] = theirs[k]
                    /\ \A k \in DOMAIN mine \ DOMAIN theirs : now[k] = mine[k]
    ]_vars

\* an account was overwritten with a snapshot that had committed a value of its
\* own: the receiver has the snapshot's sub-trie and a cache with an entry for
\* each of the two keys
C20_Witness ==
    /\ res.op = "overwrite_with" /\ res.kind = "ok" /\ steps = MaxStepsMerge
    /\ live = {1}
    /\ acct[1].storage_root # BLAKE2B_NULL_RLP
    /\ \E shape \in ShapesOf(variant) :
          DOMAIN caches[CacheOf(acct[1], shape)] = Keys

(***************************************************************************)
(* Properties of reads on a store with gaps.                               *)
(***************************************************************************)
\* C21: storage_at of a key that is neither pending nor cached fails with
\* InvalidStateRoot when the store does not hold the account's storage_root,
\* and with IncompleteDatabase when it holds the root but not the node of the
\* key's entry; a storage_at that fails returns no value and leaves the read
\* caches, the pending changes and the account as they were.
C21_StoreGaps ==
    [][res'.op = "storage_at" =>
        LET A == acct[res'.h]
            k == res'.key
            store == View(db, res'.view)
            tk == Blake2b(k)
            unknown == /\ k \notin DOMAIN ChangesOf(A, res'.shape)
                       /\ k \notin DOMAIN caches[CacheOf(A, res'.shape)]
        IN /\ (unknown /\ A.storage_root \notin store.roots
                  /\ A.storage_root # BLAKE2B_NULL_RLP)
                 => res'.kind = "InvalidStateRoot"
           /\ (unknown /\ A.storage_root \in store.roots
                  /\ (\E e \in A.storage_root : e[1] = tk /\ e \notin store.leaves))
                 => res'.kind = "IncompleteDatabase"
           /\ res'.kind \in {"InvalidStateRoot", "IncompleteDatabase"}
                 => res'.val = << >> /\ caches' = caches /\ acct' = acct
    ]_vars

\* a handle with an empty cache has asked a store that holds the root of its
\* sub-trie but not the node of the key for a key the sub-trie holds
C21_Witness ==
    /\ res.op = "storage_at" /\ res.kind = "IncompleteDatabase" /\ res.view = "roots"
    /\ acct[res.h].storage_root \in db.roots
    /\ res.key \notin DOMAIN caches[CacheOf(acct[res.h], res.shape)]
    /\ storage_is_clean(acct[res.h])

(***************************************************************************)
(* Properties of the cache locks.                                          *)
(***************************************************************************)
\* C22: every account operation runs to completion: none blocks forever on the
\* mutex of a cache cell, whatever handles share the cell, overwrite_with of a
\* handle that shares the receiver's read cache included.
C22_RunsToCompletion == ~hung /\ res.kind # "deadlock"

(***************************************************************************)
(* Properties of the two storages of the FVM account.                      *)
(***************************************************************************)
\* the other value shape of the FVM account
OtherShape(shape) == IF shape = "narrow" THEN "wide" ELSE "narrow"

\* C23: in an FVM account set_storage with a value of one shape leaves the
\* pending map and the read cache of the other shape as they were, and with
\* them the result of cached_storage_at of the other shape for every key; and
\* storage counts as clean (storage_root() returns the root, is_empty() does
\* not abort) exactly when both pending maps are empty.
C23_ShapesIndependent ==
    [][variant = "FVM" =>
        /\ res'.op = "set_storage" =>
              LET A == acct[res'.h]
                  B == acct'[res'.h]
                  o == OtherShape(res'.shape)
              IN /\ ChangesOf(B, o) = ChangesOf(A, o)
                 /\ CacheOf(B, o) = CacheOf(A, o)
                 /\ caches' = caches
                 /\ \A k \in Keys :
                       cached_storage_at(ChangesOf(B, o), caches'[CacheOf(B, o)], k)
                          = cached_storage_at(ChangesOf(A, o), caches[CacheOf(A, o)], k)
        /\ res'.op = "storage_root" =>
              (res'.kind = "some" <=>
                  /\ acct[res'.h].storage_changes = EmptyMap
                  /\ acct[res'.h].storage_changes_dword = EmptyMap)
        /\ res'.op = "is_empty" =>
              (res'.kind # "abort" <=>
                  /\ acct[res'.h].storage_changes = EmptyMap
                  /\ acct[res'.h].storage_changes_dword = EmptyMap)
    ]_vars

\* a narrow value was set for a key that has a pending wide value and a cached
\* wide value, and the three differ
C23_Witness ==
    /\ variant = "FVM"
    /\ res.op = "set_storage" /\ res.shape = "narrow"
    /\ res.key \in DOMAIN acct[res.h].storage_changes_dword
    /\ res.key \in DOMAIN caches[acct[res.h].storage_cache_dword]
    /\ acct[res.h].storage_changes_dword[res.key]
          # caches[acct[res.h].storage_cache_dword][res.key]
    /\ ~IsZero(res.val)

(***************************************************************************)
(* Properties of the trie engine.                                          *)
(***************************************************************************)
\* the keys the properties look at: those stored and those only sought
AllKeys == TrieKeys \cup SeekKeys

\* C24: in any trie state insert(key, value) with a non-empty value makes
\* get(key) return value and leaves get of every other key as it was; remove(key)
\* makes get(key) return none and leaves get of every other key as it was; and
\* contains(key) is true exactly when get(key) returns a value.
C24_TrieRoundTrip ==
    [][/\ (tres'.op = "insert" /\ tres'.val # << >>) =>
             /\ Get(node', tres'.key) = Some(tres'.val)
             /\ \A j \in AllKeys \ {tres'.key} : Get(node', j) = Get(node, j)
       /\ tres'.op = "remove" =>
             /\ Get(node', tres'.key) = None
             /\ \A j \in AllKeys \ {tres'.key} : Get(node', j) = Get(node, j)
       /\ tres'.op = "get" =>
             (tres'.out.kind = "some" => tres'.out.val # << >>)
       /\ tres'.op = "contains" =>
             (tres'.out <=> Get(node, tres'.key).kind = "some")
    ]_vars

\* a key was removed from a trie that held it and keeps two other keys, one of
\* them a prefix of the other
C24_Witness ==
    /\ tres.op = "remove" /\ tres.out.kind = "some"
    /\ Get(node, <<0>>).kind = "some" /\ Get(node, <<0, 1>>).kind = "some"
    /\ Get(node, tres.key).kind = "none"

\* the key-value set a trie holds, as its iterator yields it
Held(n) == {Iter(n)[i] : i \in 1..Len(Iter(n))}

\* the trie made by inserting the pairs into the empty trie, in one fixed order
RECURSIVE InsertAll(_, _)
InsertAll(n, pairs) ==
    IF pairs = {} THEN n
    ELSE LET e == CHOOSE x \in pairs : TRUE
         IN InsertAll(Insert(n, e[1], e[2]).node, pairs \ {e})

\* C25: the root digest depends only on the key-value set held: whatever
\* inserts and removes, in whatever order, led to the set a trie holds, its root
\* is the root of the trie made by inserting that set into the empty trie in
\* one fixed order.
C25_Canonical == RootOf(node) = RootOf(InsertAll(EmptyNode, Held(node)))

\* a removal has left three keys, one of them a prefix of the two others, in a
\* trie that held four
C25_Witness ==
    /\ tres.op = "remove" /\ tres.out.kind = "some"
    /\ {e[1] : e \in Held(node)} = {<<0>>, <<0, 0>>, <<0, 1>>}

\* the nodes of the trie below and including n
RECURSIVE NodesOf(_)
NodesOf(n) ==
    CASE n.type = "Extension" -> {n} \cup NodesOf(n.child)
      [] n.type = "Branch" ->
            {n} \cup UNION {NodesOf(n.children[i]) : i \in Nibbles}
      [] OTHER -> {n}

\* the live entries of a Branch: its children and its own value
LiveEntries(n) ==
    Cardinality({i \in Nibbles : n.children[i] # EmptyNode})
        + (IF n.value = << >> THEN 0 ELSE 1)

\* C26: after every sequence of insert and remove no Extension of the trie has
\* a zero-length path, no Extension has an Extension (or nothing) as its child,
\* and no Branch has fewer than two live entries among its 16 children and its
\* value.
C26_Structure ==
    \A n \in NodesOf(node) :
       /\ n.type = "Extension" =>
             n.path # << >> /\ n.child.type # "Extension" /\ n.child.type # "Empty"
       /\ n.type = "Branch" => LiveEntries(n) >= 2

\* removing the one key that did not share the prefix of the two others has
\* collapsed the root Branch onto the Extension below it
C26_Witness ==
    /\ tres.op = "remove" /\ tres.key = <<16>> /\ tres.out.kind = "some"
    /\ node.type = "Extension" /\ Len(node.path) = 3
    /\ node.child.type = "Branch"

\* C27: a trie made by TrieDBMut::new has the empty-trie digest as its root;
\* is_empty() holds exactly when the root is that digest; and removing the one
\* key that was inserted into an empty trie returns the root to that digest.
C27_EmptyTrie ==
    [][/\ tres'.op = "new" =>
             tres'.out = BLAKE2B_NULL_RLP /\ RootOf(node') = BLAKE2B_NULL_RLP
       /\ tres'.op = "is_empty" =>
             (tres'.out <=> RootOf(node) = BLAKE2B_NULL_RLP)
       /\ (/\ tres.op = "insert" /\ tres.out = None
           /\ Held(node) = {<<tres.key, tres.val>>}
           /\ tres'.op = "remove" /\ tres'.key = tres.key)
             => RootOf(node') = BLAKE2B_NULL_RLP /\ IsEmptyTrie(node')
    ]_vars

\* the key inserted into an empty trie was removed again
C27_Witness ==
    /\ tres.op = "remove" /\ tres.out.kind = "some"
    /\ node = EmptyNode /\ IsEmptyTrie(node)

Stored(n) == {<<k, Get(n, k).val>> : k \in {j \in AllKeys : Get(n, j).kind = "some"}}

\* a sequence of pairs in strictly ascending key order
Ascending(seq) == \A i \in 1..Len(seq) : \A j \in 1..Len(seq) :
                     i < j => Less(seq[i][1], seq[j][1])

\* C29: a full iteration yields each stored (key, value) pair exactly once, in
\* strictly ascending key order; after seek(k) the iterator yields the pairs
\* with a key strictly greater than k, in ascending order, so that its next item
\* is the pair with the smallest such key, or it is at its end when there is none.
C29_Iteration ==
    [][/\ tres'.op = "iter" =>
             /\ {tres'.out[i] : i \in 1..Len(tres'.out)} = Stored(node)
             /\ Len(tres'.out) = Cardinality(Stored(node))
             /\ Ascending(tres'.out)
       /\ tres'.op = "seek" =>
             LET greater == {e \in Stored(node) : Less(tres'.key, e[1])}
             IN /\ {tres'.out[i] : i \in 1..Len(tres'.out)} = greater
                /\ Len(tres'.out) = Cardinality(greater)
                /\ Ascending(tres'.out)
                /\ greater = {} <=> tres'.out = << >>
                /\ greater # {} =>
                      \A e \in greater :
                         e = tres'.out[1] \/ Less(tres'.out[1][1], e[1])
    ]_vars

\* seek was given a key the trie holds, with a stored key below it that is a
\* prefix of it and three stored keys above it
C29_Witness ==
    /\ tres.op = "seek" /\ tres.key = <<0, 0>>
    /\ Get(node, <<0, 0>>).kind = "some" /\ Get(node, <<0>>).kind = "some"
    /\ Len(tres.out) = 3
    /\ tres.out[1][1] = <<0, 1>>

(***************************************************************************)
(* Properties of TrieFactory.                                              *)
(***************************************************************************)
\* C30: for each flavor, readonly(store, root) and from_existing(store, root)
\* fail with InvalidStateRoot(root) when root is not in the store and otherwise
\* open the trie at root, leaving root and the store as they are; create never
\* fails and yields an empty trie whatever root held before; the handle has the
\* flavor selected in the factory, Secure when none was selected; and is_fat()
\* holds exactly when that flavor is Fat.
C30_FactoryOpens ==
    [][/\ tres'.op \in {"readonly", "from_existing"} =>
             LET store == View(db, tres'.val)
             IN /\ troot' = troot /\ db' = db
                /\ IF troot \notin store.roots /\ troot # BLAKE2B_NULL_RLP
                   THEN /\ tres'.kind = "InvalidStateRoot" /\ tres'.out = troot
                        /\ opened' = NoHandle
                   ELSE /\ tres'.kind = "ok"
                        /\ opened'.held = troot
                        /\ opened'.flavor = factory
                        /\ opened'.open = IF tres'.op = "readonly" THEN "reader"
                                          ELSE "writer"
       /\ tres'.op = "create" =>
             /\ tres'.kind = "ok" /\ db' = db
             /\ opened'.open = "writer" /\ opened'.held = {}
             /\ opened'.flavor = factory
             /\ troot' = BLAKE2B_NULL_RLP
       /\ tres'.op = "is_fat" => (tres'.out <=> factory = "Fat")
       /\ steps = 0 => factory = "Secure"
       /\ (tres'.op = "insert" /\ opened.open = "writer") =>
             opened'.held =
                {e \in opened.held : e[1] # TrieKey(opened.flavor, tres'.key)}
                   \cup {<<TrieKey(opened.flavor, tres'.key), tres'.val>>}
    ]_vars

\* a Fat factory has opened a reader on a trie that a writer it created had
\* committed
C30_Witness ==
    /\ tres.op = "readonly" /\ tres.kind = "ok"
    /\ opened.open = "reader" /\ opened.flavor = "Fat" /\ opened.held # {}
    /\ troot \in db.roots /\ db.fat # {}

(***************************************************************************)
(* Properties of the ABI encoder.                                          *)
(***************************************************************************)
RECURSIVE BigEndian(_, _)
\* the n base-256 digits of v >= 0, most significant first
BigEndian(v, n) ==
    IF n = 0 THEN << >> ELSE BigEndian(v \div 256, n - 1) \o <<v % 256>>

\* the n-byte two's-complement representation of v, most significant byte
\* first: the digits of v, or the complemented digits of -(v + 1)
TwosComplement(v, n) ==
    IF v >= 0 THEN BigEndian(v, n)
    ELSE [i \in 1..n |-> 255 - BigEndian(-(v + 1), n)[i]]

\* the width in bits of an integer type
BitsOf(t) == CASE t \in {"u16", "i16"} -> 16
               [] t \in {"u32", "i32"} -> 32
               [] t \in {"u64", "i64"} -> 64

\* C31: encode of AbiToken::STRING(s) is the tag byte 0x21, the byte length of
\* s as a 4-byte big-endian integer, then the bytes of s: 5 + len(s) bytes.
C31_EncodeString ==
    (abi.op = "encode" /\ Tag(abi.token) = "STRING") =>
        /\ abi.kind = "ok"
        /\ abi.out = <<33>> \o BigEndian(Len(Payload(abi.token)), 4)
                            \o Payload(abi.token)
        /\ Len(abi.out) = 5 + Len(Payload(abi.token))

\* tests::encode: STRING("hello") gives [33, 0, 0, 0, 5, 104, 101, 108, 108, 111]
C31_Witness ==
    /\ abi.op = "encode"
    /\ abi.token = Token("STRING", Hello)
    /\ abi.target = "little"
    /\ abi.out = <<33, 0, 0, 0, 5, 104, 101, 108, 108, 111>>

\* C32: to_bytes of a 16-, 32- or 64-bit signed or unsigned integer returns
\* exactly 2, 4 or 8 bytes, the big-endian two's-complement representation of
\* the value, on either kind of target.
C32_ToBytes ==
    abi.op = "to_bytes" =>
        /\ Len(abi.out) = BitsOf(abi.type) \div 8
        /\ abi.out = TwosComplement(abi.v, BitsOf(abi.type) \div 8)

\* a negative value on a little-endian target: -256i16 gives [0xff, 0x00]
C32_Witness ==
    /\ abi.op = "to_bytes"
    /\ abi.type = "i16" /\ abi.v = -256 /\ abi.target = "little"
    /\ abi.out = <<255, 0>>

\* the bytes of one array element: its width, and its big-endian encoding (a
\* boolean as in BOOL)
ElementWidth(tag) ==
    CASE tag \in {"AUCHAR", "ABOOL", "AINT8"} -> 1
      [] tag = "AINT16" -> 2
      [] tag = "AINT32" -> 4
      [] tag = "AINT64" -> 8
ElementBytes(tag, x) ==
    IF tag = "ABOOL" THEN (IF x THEN <<1>> ELSE <<0>>)
    ELSE TwosComplement(x, ElementWidth(tag))

\* C36: encode of an array token over n elements is the tag byte followed by
\* the encoding of every element in order, 1 + n * element-width bytes.
C36_EncodeArray ==
    (abi.op = "encode" /\ Tag(abi.token) \in ArrayTags) =>
        LET tag == Tag(abi.token)
            v == Payload(abi.token)
        IN  /\ abi.kind = "ok"
            /\ abi.out = <<TagOf(tag)>>
                            \o Flatten([i \in 1..Len(v) |-> ElementBytes(tag, v[i])])
            /\ Len(abi.out) = 1 + Len(v) * ElementWidth(tag)

(***************************************************************************)
(* Properties of the command parser.                                       *)
(***************************************************************************)
\* the first space-separated token of a line: what precedes its first space
FirstToken(input) ==
    IF \E i \in 1..Len(input) : input[i] = " "
    THEN SubSeq(input, 1, (CHOOSE i \in 1..Len(input) :
                              /\ input[i] = " "
                              /\ \A j \in 1..(i - 1) : input[j] # " ") - 1)
    ELSE input

\* C37: parse(input, opts) returns Err(WrongCmdName) when the first
\* space-separated token of input differs from the application name held in
\* opts, and Ok(()) when it equals it; it never fails on an empty input line.
C37_Parse ==
    cmd.op = "parse" =>
        /\ FirstToken(cmd.input) # cmd.name => cmd.result = "WrongCmdName"
        /\ FirstToken(cmd.input) = cmd.name => cmd.result = "Ok"
        /\ cmd.input = << >> => cmd.result \in {"Ok", "WrongCmdName"}

(***************************************************************************)
(* Properties of the storage commit: flavors, failures.                    *)
(***************************************************************************)
\* the sub-trie `root` holds the encoding of v for storage key k as a trie of
\* `flavor` stores it, and nothing for k under the other form of the key
CommittedAs(root, flavor, shape, k, v) ==
    /\ <<TrieKey(flavor, k), EncodeOf(shape, v)>> \in root
    /\ \A g \in Flavors :
          TrieKey(g, k) # TrieKey(flavor, k) => ~TrieHas(root, TrieKey(g, k))

\* a read of k on handle h that neither a pending change nor the read cache
\* answers, as on an account just re-derived from its record
ReadsTrie(h, shape, k) ==
    /\ h \in live
    /\ k \notin DOMAIN ChangesOf(acct[h], shape)
    /\ k \notin DOMAIN caches[CacheOf(acct[h], shape)]

\* the storage_at of the step reads, from the backing store, a key that
\* commit_storage through a factory of `flavor` wrote with the non-zero value
\* v, one that its own codec reads back
ReadsCommitted(flavor, v) ==
    /\ res'.op = "storage_at" /\ res'.view = "full"
    /\ ReadsTrie(res'.h, res'.shape, res'.key)
    /\ ~IsZero(v)
    /\ DecodeOf(res'.shape, EncodeOf(res'.shape, v)) = v
    /\ CommittedAs(acct[res'.h].storage_root, flavor, res'.shape, res'.key, v)

\* C33: whichever flavor the TrieFactory passed to commit_storage has
\* (Generic, Secure, Fat), a non-zero value it committed is what storage_at
\* returns on an account re-derived from the serialized record.
C33_FlavorRoundTrip ==
    [][\A flavor \in Flavors, v \in ValuesOf(res'.shape) :
          ReadsCommitted(flavor, v) => res'.kind = "ok" /\ res'.val = v]_vars

\* the trie `root`, written through `flavor`, reflects the pending change of k
\* to v: no entry for a zero value, the encoded value otherwise
Applied(root, flavor, shape, k, v) ==
    IF IsZero(v) THEN ~TrieHas(root, TrieKey(flavor, k))
    ELSE <<TrieKey(flavor, k), EncodeOf(shape, v)>> \in root

StillPending(A, shape, k, v) ==
    k \in DOMAIN ChangesOf(A, shape) /\ ChangesOf(A, shape)[k] = v

\* C34: a failed commit_storage loses no pending write: when opening the
\* sub-trie fails (InvalidStateRoot) the pending changes, the read caches and
\* storage_root are unchanged; when an insert or remove fails part-way, every
\* pending change not applied to the trie is still pending afterwards.
C34_NoPendingLost ==
    [][(res'.op = "commit_storage" /\ res'.kind # "ok") =>
          LET A == acct[res'.h]
              B == acct'[res'.h]
          IN  /\ res'.kind = "InvalidStateRoot" => B = A /\ caches' = caches
              /\ \A shape \in ShapesOf(variant) :
                    \A k \in DOMAIN ChangesOf(A, shape) :
                       \/ Applied(B.storage_root, res'.flavor, shape, k,
                                  ChangesOf(A, shape)[k])
                       \/ StillPending(B, shape, k, ChangesOf(A, shape)[k])]_vars

(***************************************************************************)
(* Properties of address_hash.                                             *)
(***************************************************************************)
\* C35 as stated: every address_hash(address) returns the digest of the
\* address passed, whatever was called before on the handles sharing the cell.
C35_OwnDigest ==
    (res.op = "address_hash" /\ res.kind = "ok") => res.val = Blake2b(res.key)

\* the step completes a call of address_hash
Returns == steps' # steps /\ res'.op = "address_hash" /\ res'.kind = "ok"

\* C35, amended: address_hash(address) returns the digest the address-hash cell
\* holds when the call reads it, whatever address is passed, and leaves the
\* cell alone; only when the cell is empty does it return the digest of the
\* address passed, which it stores in the cell.  The cell is shared by the
\* handles clone_basic, clone_dirty and clone_all make and taken over by the
\* receiver of overwrite_with, so a call returns a digest other than that of
\* its own argument exactly when an earlier call on a handle sharing the cell
\* stored the digest of another address.
C35_CachedDigest ==
    [][Returns =>
          LET h == res'.h
              cell == address_hash[h]
          IN  /\ calls[h] = NoAddress =>
                    /\ cells[cell] # NoHash
                    /\ res'.val = cells[cell]
                    /\ cells' = cells
              /\ calls[h] # NoAddress =>
                    /\ res'.key = calls[h]
                    /\ res'.val = Blake2b(calls[h])
                    /\ cells'[cell] = Blake2b(calls[h])
              /\ res'.val # Blake2b(res'.key) =>
                    \E other \in Addresses \ {res'.key} :
                       cells[cell] = Blake2b(other)]_vars

\* a call with address 2 on a handle that shares its cell with another handle
\* returns the digest of address 1, stored by an earlier call
C35_Witness ==
    /\ res.op = "address_hash" /\ res.kind = "ok"
    /\ res.key = 2 /\ res.val = Blake2b(1)
    /\ \E h \in live \ {res.h} : address_hash[h] = address_hash[res.h]

====
